---- MODULE Spec2Model ----
(***************************************************************************)
(* Model of the synchronization layer of SimpleX-T/wweb-bot:               *)
(*   - the session state machine            (src/config/whatsapp.js)       *)
(*   - the event ingestion dispatcher       (src/app.js, event handlers)   *)
(*   - the message reconciliation store     (src/models/session.model.js)  *)
(*   - the watch registry                   (src/models/watchlist.model.js)*)
(* The durable store is modelled per document: a find, a findOneAndUpdate, *)
(* a create and a save are each one atomic step; an async handler is a     *)
(* process whose position (pc) advances by one awaited operation per step. *)
(***************************************************************************)
EXTENDS Integers, Sequences, FiniteSets, TLC

(***************************************************************************)
(* Bounds                                                                  *)
(***************************************************************************)
\* handler invocations that may be in flight at once
MaxProcs == 2
\* inbound events / API calls of one behaviour of the ingestion model
MaxEvents == 3
\* operations of one behaviour of the reconciliation model
MaxOps == 3
\* session events and calls of one behaviour of the session model
MaxSessionSteps == 4
\* client instances the session model may construct
MaxClients == 2

(***************************************************************************)
(* Program constants                                                       *)
(***************************************************************************)
\* getChatMessages: limit = 50
DefaultLimit == 50
\* MESSAGE_ACK.PENDING
AckPending == 0
AckError == -1
AckSent == 1
AckRead == 3

Tombstone == "This message was deleted"

INITIALIZING == "initializing"
QR_READY == "qr_ready"
AUTHENTICATED == "authenticated"
READY == "ready"
DISCONNECTED == "disconnected"
FAILED == "failed"
CLIENT_STATUS == {INITIALIZING, QR_READY, AUTHENTICATED, READY, DISCONNECTED, FAILED}

WS_CLIENT_STATUS == "client:status"
WS_CLIENT_QR == "client:qr"
WS_CLIENT_READY == "client:ready"
WS_CLIENT_DISCONNECTED == "client:disconnected"
WS_MESSAGE_NEW == "message:new"
WS_MESSAGE_ACK == "message:ack"
WS_MESSAGE_REVOKED == "message:revoked"
WS_MESSAGE_EDIT == "message:edit"
WS_MESSAGE_REACTION == "message:reaction"
WS_GROUP_JOIN == "group:join"
WS_GROUP_LEAVE == "group:leave"
WS_WATCHLIST_UPDATE == "watchlist:update"
WS_WATCHLIST_MESSAGE == "watchlist:message"

(***************************************************************************)
(* The outside world: conversations, messages, senders                     *)
(***************************************************************************)
Me == "me@c.us"
DirectChat == "c1@c.us"
GroupChat == "g1@g.us"
Chats == {DirectChat, GroupChat}
Senders == {"s1@c.us", "s2@c.us"}
Bodies == {"hi", "yo"}
Emojis == {"", "+1", "<3"}
NoRow == 0
Null == "null"

\* chatId.includes("@g.us")
IsGroupId(c) == c = GroupChat

\* A messageId is assigned by the messaging network and is stable across
\* redelivery: its conversation, direction and timestamp never change.
MsgIds == {"m1", "m2", "m3", "m4"}
MsgFromMe(id) == id = "m3"
MsgChat(id) == IF id \in {"m1", "m2"} THEN DirectChat ELSE GroupChat
MsgTimestamp(id) == IF id = "m1" THEN 1 ELSE 2

\* The message object the session hands to a handler.
WaMessage(id, body) ==
    [ id        |-> id,
      from      |-> IF MsgFromMe(id) THEN Me ELSE MsgChat(id),
      to        |-> IF MsgFromMe(id) THEN MsgChat(id) ELSE Me,
      author    |-> IF IsGroupId(MsgChat(id)) /\ ~MsgFromMe(id) THEN "s1@c.us" ELSE Null,
      body      |-> body,
      timestamp |-> MsgTimestamp(id),
      fromMe    |-> MsgFromMe(id),
      ack       |-> AckPending ]

VARIABLES
    \* ---- durable store
    messages,      \* Message collection: sequence of rows, in insertion order
    watchlist,     \* Watchlist collection: chatId -> entry (unique index on chatId)
    \* ---- dispatcher
    procs,         \* in-flight handler invocations: slot -> [pc, kind, msg, doc]
    bcast,         \* broadcasts emitted by the last step, in order
    lastOp,        \* the operation the last step belongs to, with its inputs
    logRet,        \* value returned by the last completed logMessage call
    nEvents,       \* events delivered and calls made so far
    inbound,       \* chatId -> ids of non-self messages whose handler found the entry active
    inboundCount,  \* chatId -> number of such handler invocations
    markReads,     \* chatId -> number of mark-read / remove calls
    watchSeen,     \* ids of messages whose handler found the watch entry active
    watchBcasts,   \* ids of messages a watchlist-message broadcast was emitted for
    revokeObs,     \* observed (messageId, revoked body, broadcast data) of revoke events
    \* ---- session
    client,        \* the module-level client instance (0 = null)
    clientStatus,
    currentQR,
    phase,         \* client instance -> its position in the session protocol
    initCall,      \* client instance -> state of its pending client.initialize()
    pendingWrites, \* Session writes issued and not yet applied by the store
    sessionDoc,    \* the persisted Session document
    handlerSets,   \* client instance -> times initializeEventHandlers attached to it
    sessOp,        \* the last session operation
    sessSteps,     \* session events and calls so far
    initRet,       \* what the last initializeClient() call gave its caller
    \* ---- group auto-messages
    settings,      \* the GroupSettings document of the group
    gprocs,        \* in-flight handleGroupJoin / handleGroupLeave invocations
    glog,          \* what the join / leave handler that finished last did
    \* ---- watch registry calls in flight
    addProcs,      \* in-flight addToWatchlist calls: slot -> [pc, chat, doc]
    dupDocs,       \* chatId -> documents inserted next to an existing one of that chatId
    addRet         \* how the addToWatchlist call that finished last ended

storeVars == <<messages, watchlist>>
dispVars == <<procs, bcast, lastOp, logRet, nEvents, inbound, inboundCount, markReads, revokeObs,
              watchSeen, watchBcasts>>
dispOther == <<procs, lastOp, logRet, nEvents, inbound, inboundCount, markReads, revokeObs,
               watchSeen, watchBcasts>>
sessVars == <<client, clientStatus, currentQR, phase, initCall, pendingWrites, sessionDoc,
              handlerSets, sessOp, sessSteps, initRet>>
autoVars == <<settings, gprocs, glog>>
regVars == <<addProcs, dupDocs, addRet>>
vars == <<storeVars, dispVars, sessVars, autoVars, regVars>>

(***************************************************************************)
(* Message collection                                                      *)
(***************************************************************************)
\* Model.findOne({ messageId }): position of the first matching row, or NoRow
FindOne(rows, id) ==
    IF \E i \in DOMAIN rows : rows[i].messageId = id
    THEN CHOOSE i \in DOMAIN rows :
            /\ rows[i].messageId = id
            /\ \A j \in DOMAIN rows : rows[j].messageId = id => i <= j
    ELSE NoRow

\* the document logMessage passes to create()
NewRow(message) ==
    [ messageId |-> message.id,
      chatId    |-> IF IsGroupId(message.from) THEN message.from
                    ELSE IF message.fromMe THEN message.to ELSE message.from,
      from      |-> message.from,
      to        |-> message.to,
      author    |-> message.author,
      body      |-> message.body,
      timestamp |-> message.timestamp,
      fromMe    |-> message.fromMe,
      ack       |-> message.ack,
      isEdited  |-> FALSE,
      isDeleted |-> FALSE,
      reactions |-> << >> ]

CanInsertDuplicates(rows, row) == TRUE

\* the unique index on messageId accepts the insert
CanInsert(rows, row) == FindOne(rows, row.messageId) = NoRow

\* Model.findOneAndUpdate({ messageId }, update): the first matching row is
\* replaced by its updated version, updated[i] being the update applied to
\* rows[i]; nothing happens when no row matches (no upsert)
UpdateOne(rows, id, updated) ==
    IF FindOne(rows, id) = NoRow THEN rows
    ELSE [rows EXCEPT ![FindOne(rows, id)] = updated[FindOne(rows, id)]]

RowsOf(rows, id) == {i \in DOMAIN rows : rows[i].messageId = id}

(***************************************************************************)
(* Watchlist collection                                                    *)
(***************************************************************************)
NoPreview == [content |-> "", timestamp |-> 0, from |-> Null, fromMe |-> FALSE]

NoEntry == [exists |-> FALSE, isActive |-> FALSE, unreadCount |-> 0, lastMessage |-> NoPreview,
            pinned |-> FALSE, notifications |-> FALSE, order |-> 0]

\* the document create() stores: the schema defaults and the given order
NewEntry(order) == [exists |-> TRUE, isActive |-> TRUE, unreadCount |-> 0, lastMessage |-> NoPreview,
                    pinned |-> FALSE, notifications |-> TRUE, order |-> order]

Active(wl) == {c \in DOMAIN wl : wl[c].exists /\ wl[c].isActive}

\* findOne({ isActive: true }).sort({ order: -1 }), then (maxOrder?.order || 0)
MaxOrder(wl) ==
    IF Active(wl) = {} THEN 0
    ELSE CHOOSE n \in {wl[c].order : c \in Active(wl)} : \A c \in Active(wl) : wl[c].order <= n

FindActiveAny(wl, c) == TRUE

\* Watchlist.findOne({ chatId, isActive: true })
FindActive(wl, c) == wl[c].exists /\ wl[c].isActive

\* the lastMessage preview built by updateLastMessage
Preview(message) ==
    [ content   |-> message.body,
      timestamp |-> message.timestamp,
      from      |-> IF message.author # Null THEN message.author ELSE message.from,
      fromMe    |-> message.fromMe ]

\* updateLastMessage on the document loaded by the handler: the in-memory copy
UpdateLastMessage(doc, message) ==
    [doc EXCEPT !.lastMessage = Preview(message),
                !.unreadCount = IF message.fromMe THEN @ ELSE @ + 1]

\* doc.save() after updateLastMessage: a $set of the modified paths only
\* (lastMessage always, unreadCount when the message is not self-sent)
SaveLastMessage(wl, c, doc, message) ==
    [wl EXCEPT ![c].lastMessage = doc.lastMessage,
               ![c].unreadCount = IF message.fromMe THEN @ ELSE doc.unreadCount]

(***************************************************************************)
(* Dispatcher: shared definitions                                          *)
(***************************************************************************)
NoMsg == [id |-> Null, from |-> Null, to |-> Null, author |-> Null, body |-> "",
          timestamp |-> 0, fromMe |-> FALSE, ack |-> AckPending]

NoRowRec == NewRow(NoMsg)

Idle == [pc |-> "idle", kind |-> "none", msg |-> NoMsg, doc |-> NoEntry]

Slots == 1..MaxProcs

FreeSlot == CHOOSE p \in Slots :
                /\ procs[p].pc = "idle"
                /\ \A q \in Slots : procs[q].pc = "idle" => p <= q

AllBusy == \A p \in Slots : procs[p].pc # "idle"

AllIdle == \A p \in Slots : procs[p].pc = "idle"

OpRec(op, id, chat, body, sender, emoji) ==
    [op |-> op, id |-> id, chat |-> chat, body |-> body, sender |-> sender, emoji |-> emoji]

NoOp == OpRec("none", Null, Null, "", Null, "")

\* formatMessage(message)
FormatMessage(message) ==
    [ id |-> message.id, body |-> message.body, timestamp |-> message.timestamp,
      from |-> message.from, to |-> message.to, author |-> message.author,
      fromMe |-> message.fromMe, ack |-> message.ack ]

Broadcast(event, data) == [event |-> event, data |-> data]

ClientReadyAnyStatus(cl, st) == cl # 0

\* client && clientStatus === CLIENT_STATUS.READY
ClientReady(cl, st) == cl # 0 /\ st = READY

\* isClientReady()
IsClientReady == ClientReady(client, clientStatus)

\* the conversation a handler invocation works on
ProcChat(pr) == IF pr.kind = "message" THEN pr.msg.from ELSE pr.msg.to

\* broadcasts of a handler that has logged its message
LoggedBroadcasts(pr) ==
    <<Broadcast(WS_WATCHLIST_MESSAGE,
                [chatId |-> ProcChat(pr), message |-> FormatMessage(pr.msg)])>>
    \o (IF pr.kind = "message"
        THEN <<Broadcast(WS_MESSAGE_NEW, FormatMessage(pr.msg))>>
        ELSE << >>)

(***************************************************************************)
(* logMessage                                                              *)
(***************************************************************************)
LogMessageOnFoundOverwrite(rows, i, message) ==
    [rows |-> [rows EXCEPT ![i] = NewRow(message)], ret |-> NewRow(message)]

\* if (existingMessage) return existingMessage;
LogMessageOnFound(rows, i, message) == [rows |-> rows, ret |-> rows[i]]

\* return this.create({...}) when the index accepts the document
LogMessageOnCreate(rows, message) ==
    [rows |-> Append(rows, NewRow(message)), ret |-> NewRow(message)]

(***************************************************************************)
(* handleMessage / handleMessageCreate, one awaited operation per step     *)
(***************************************************************************)
\* client.on("message"): the session delivers a message received from others
DeliverMessage(id, body) ==
    /\ nEvents < MaxEvents
    /\ ~MsgFromMe(id)
    /\ ~AllBusy
    /\ LET message == WaMessage(id, body) IN
        /\ procs' = [procs EXCEPT ![FreeSlot] =
                [pc   |-> IF IsGroupId(message.from) THEN "getChat" ELSE "findWatch",
                 kind |-> "message", msg |-> message, doc |-> NoEntry]]
        /\ lastOp' = OpRec("message", id, message.from, body, Null, "")
    /\ nEvents' = nEvents + 1
    /\ bcast' = << >>
    /\ UNCHANGED <<storeVars, logRet, inbound, inboundCount, watchSeen, watchBcasts, markReads, revokeObs, sessVars, autoVars, regVars>>

\* client.on("message_create"): the session delivers a created message;
\* handleMessageCreate returns at once unless message.fromMe
DeliverMessageCreate(id, body) ==
    /\ nEvents < MaxEvents
    /\ ~AllBusy
    /\ LET message == WaMessage(id, body) IN
        /\ procs' = IF message.fromMe
                     THEN [procs EXCEPT ![FreeSlot] =
                            [pc |-> "findWatch", kind |-> "create", msg |-> message,
                             doc |-> NoEntry]]
                     ELSE procs
        /\ lastOp' = OpRec("message_create", id, message.to, body, Null, "")
    /\ nEvents' = nEvents + 1
    /\ bcast' = << >>
    /\ UNCHANGED <<storeVars, logRet, inbound, inboundCount, watchSeen, watchBcasts, markReads, revokeObs, sessVars, autoVars, regVars>>

\* await message.getChat() of a group message resolves
GetChatStep(p) ==
    /\ procs[p].pc = "getChat"
    /\ procs' = [procs EXCEPT ![p].pc = "findWatch"]
    /\ lastOp' = OpRec("getChat", procs[p].msg.id, ProcChat(procs[p]), procs[p].msg.body, Null, "")
    /\ bcast' = << >>
    /\ UNCHANGED <<storeVars, logRet, nEvents, inbound, inboundCount, watchSeen, watchBcasts, markReads, revokeObs, sessVars, autoVars, regVars>>

\* await Watchlist.findOne({ chatId, isActive: true }) resolves; with an entry
\* the handler runs updateLastMessage on the loaded document up to its save()
FindWatchStep(p) ==
    /\ procs[p].pc = "findWatch"
    /\ LET pr == procs[p]
           c == ProcChat(pr) IN
        IF FindActive(watchlist, c)
        THEN /\ procs' = [procs EXCEPT ![p].pc = "saveWatch",
                                       ![p].doc = UpdateLastMessage(watchlist[c], pr.msg)]
             /\ bcast' = << >>
             /\ lastOp' = OpRec("watchFound", pr.msg.id, c, pr.msg.body, Null, "")
             /\ inbound' = IF pr.msg.fromMe THEN inbound
                            ELSE [inbound EXCEPT ![c] = @ \cup {pr.msg.id}]
             /\ inboundCount' = IF pr.msg.fromMe THEN inboundCount
                                 ELSE [inboundCount EXCEPT ![c] = @ + 1]
             /\ watchSeen' = watchSeen \cup {pr.msg.id}
        ELSE /\ procs' = [procs EXCEPT ![p] = Idle]
             /\ bcast' = IF pr.kind = "message"
                          THEN <<Broadcast(WS_MESSAGE_NEW, FormatMessage(pr.msg))>>
                          ELSE << >>
             /\ lastOp' = OpRec("notWatched", pr.msg.id, c, pr.msg.body, Null, "")
             /\ UNCHANGED <<inbound, inboundCount, watchSeen>>
    /\ UNCHANGED <<storeVars, logRet, nEvents, markReads, revokeObs, watchBcasts, sessVars, autoVars, regVars>>

\* the save() issued by updateLastMessage is applied by the store
SaveWatchStep(p) ==
    /\ procs[p].pc = "saveWatch"
    /\ LET pr == procs[p] IN
        /\ watchlist' = SaveLastMessage(watchlist, ProcChat(pr), pr.doc, pr.msg)
        /\ lastOp' = OpRec("watchSaved", pr.msg.id, ProcChat(pr), pr.msg.body, Null, "")
    /\ procs' = [procs EXCEPT ![p].pc = "logFind"]
    /\ bcast' = << >>
    /\ UNCHANGED <<messages, logRet, nEvents, inbound, inboundCount, watchSeen, watchBcasts, markReads, revokeObs, sessVars, autoVars, regVars>>

\* logMessage: await this.findOne({ messageId }) resolves
LogFindStep(p) ==
    /\ procs[p].pc = "logFind"
    /\ LET pr == procs[p]
           i == FindOne(messages, pr.msg.id) IN
        IF i # NoRow
        THEN /\ messages' = LogMessageOnFound(messages, i, pr.msg).rows
             /\ logRet' = LogMessageOnFound(messages, i, pr.msg).ret
             /\ procs' = [procs EXCEPT ![p] = Idle]
             /\ bcast' = LoggedBroadcasts(pr)
             /\ watchBcasts' = watchBcasts \cup {pr.msg.id}
             /\ lastOp' = OpRec("logFound", pr.msg.id, ProcChat(pr), pr.msg.body, Null, "")
        ELSE /\ procs' = [procs EXCEPT ![p].pc = "logCreate"]
             /\ bcast' = << >>
             /\ lastOp' = OpRec("logMiss", pr.msg.id, ProcChat(pr), pr.msg.body, Null, "")
             /\ UNCHANGED <<messages, logRet, watchBcasts>>
    /\ UNCHANGED <<watchlist, nEvents, inbound, inboundCount, watchSeen, markReads, revokeObs,
                    sessVars, autoVars, regVars>>

\* logMessage: this.create({...}) is applied by the store; a duplicate key is
\* rejected by the unique index, the rejection propagates out of the handler
\* and is caught and logged by the listener registered in initializeEventHandlers
LogCreateStep(p) ==
    /\ procs[p].pc = "logCreate"
    /\ LET pr == procs[p] IN
        IF CanInsert(messages, NewRow(pr.msg))
        THEN /\ messages' = LogMessageOnCreate(messages, pr.msg).rows
             /\ logRet' = LogMessageOnCreate(messages, pr.msg).ret
             /\ bcast' = LoggedBroadcasts(pr)
             /\ watchBcasts' = watchBcasts \cup {pr.msg.id}
             /\ lastOp' = OpRec("logCreated", pr.msg.id, ProcChat(pr), pr.msg.body, Null, "")
        ELSE /\ bcast' = << >>
             /\ lastOp' = OpRec("logDuplicate", pr.msg.id, ProcChat(pr), pr.msg.body, Null, "")
             /\ UNCHANGED <<messages, logRet, watchBcasts>>
    /\ procs' = [procs EXCEPT ![p] = Idle]
    /\ UNCHANGED <<watchlist, nEvents, inbound, inboundCount, watchSeen, markReads, revokeObs,
                    sessVars, autoVars, regVars>>

(***************************************************************************)
(* Watch registry calls (WatchlistService over the Watchlist model)        *)
(***************************************************************************)
\* Watchlist.addToWatchlist(chatData): reactivate an existing entry or create
\* one after the last active entry
AddToWatchlistEntry(wl, c) ==
    IF wl[c].exists
    THEN [wl EXCEPT ![c].isActive = TRUE]
    ELSE [wl EXCEPT ![c] = NewEntry(MaxOrder(wl) + 1)]

\* WatchlistService.addToWatchlist(chatId)
AddToWatchlist(c) ==
    /\ nEvents < MaxEvents
    /\ IsClientReady
    /\ watchlist' = AddToWatchlistEntry(watchlist, c)
    /\ lastOp' = OpRec(IF watchlist[c].exists /\ ~watchlist[c].isActive THEN "addReactivate"
                       ELSE "add", Null, c, "", Null, "")
    /\ nEvents' = nEvents + 1
    /\ bcast' = << >>
    /\ UNCHANGED <<messages, procs, logRet, inbound, inboundCount, watchSeen, watchBcasts, markReads, revokeObs, sessVars, autoVars, regVars>>

\* what a registry call gave its caller: the entry, or the not-found error
RegistryReturn(outcome, c, entry) ==
    [addRet EXCEPT !.outcome = outcome, !.chat = c, !.entry = entry]

\* the part of a registry call that does not depend on the call
RegistryCall(op, c) ==
    /\ nEvents < MaxEvents
    /\ lastOp' = OpRec(op, Null, c, "", Null, "")
    /\ nEvents' = nEvents + 1
    /\ bcast' = << >>
    /\ UNCHANGED <<messages, procs, logRet, inbound, inboundCount, watchSeen, watchBcasts,
                    revokeObs, sessVars, autoVars, addProcs, dupDocs>>

RemoveDeletes(entry) == NoEntry

\* the update of removeFromWatchlist: { isActive: false }
RemoveUpdate(entry) == [entry EXCEPT !.isActive = FALSE]

\* WatchlistService.removeFromWatchlist(chatId):
\* findOneAndUpdate({ chatId }, { isActive: false }, { new: true }); a null
\* result throws WATCHLIST_NOT_FOUND
RemoveFromWatchlist(c) ==
    /\ watchlist' = IF watchlist[c].exists
                     THEN [watchlist EXCEPT ![c] = RemoveUpdate(watchlist[c])]
                     ELSE watchlist
    /\ addRet' = IF watchlist[c].exists
                  THEN RegistryReturn("removed", c, watchlist'[c])
                  ELSE RegistryReturn("notFound", c, NoEntry)
    /\ markReads' = [markReads EXCEPT ![c] = @ + 1]
    /\ RegistryCall(IF watchlist[c].exists THEN "remove" ELSE "removeNotFound", c)

MarkAsReadClearsPreview(wl, c) == [wl EXCEPT ![c].unreadCount = 0, ![c].lastMessage = NoPreview]

\* watchlistSchema.methods.markAsRead: this.unreadCount = 0; save()
MarkAsReadEntry(wl, c) == [wl EXCEPT ![c].unreadCount = 0]

\* WatchlistService.markAsRead(chatId): getWatchlistItem throws when there is
\* no active entry
MarkAsRead(c) ==
    /\ watchlist' = IF FindActive(watchlist, c) THEN MarkAsReadEntry(watchlist, c)
                     ELSE watchlist
    /\ addRet' = IF FindActive(watchlist, c)
                  THEN RegistryReturn("markRead", c, watchlist'[c])
                  ELSE RegistryReturn("notFound", c, NoEntry)
    /\ markReads' = [markReads EXCEPT ![c] = @ + 1]
    /\ RegistryCall(IF FindActive(watchlist, c) THEN "markRead" ELSE "markReadNotFound", c)

\* watchlistSchema.methods.togglePin: this.pinned = !this.pinned; save()
TogglePinEntry(wl, c) == [wl EXCEPT ![c].pinned = ~@]

\* WatchlistService.togglePin(chatId)
TogglePin(c) ==
    /\ watchlist' = IF FindActive(watchlist, c) THEN TogglePinEntry(watchlist, c)
                     ELSE watchlist
    /\ addRet' = IF FindActive(watchlist, c)
                  THEN RegistryReturn("togglePin", c, watchlist'[c])
                  ELSE RegistryReturn("notFound", c, NoEntry)
    /\ RegistryCall(IF FindActive(watchlist, c) THEN "togglePin" ELSE "togglePinNotFound", c)
    /\ UNCHANGED markReads

\* watchlistSchema.methods.toggleNotifications
ToggleNotificationsEntry(wl, c) == [wl EXCEPT ![c].notifications = ~@]

\* WatchlistService.toggleNotifications(chatId)
ToggleNotifications(c) ==
    /\ watchlist' = IF FindActive(watchlist, c) THEN ToggleNotificationsEntry(watchlist, c)
                     ELSE watchlist
    /\ addRet' = IF FindActive(watchlist, c)
                  THEN RegistryReturn("toggleNotifications", c, watchlist'[c])
                  ELSE RegistryReturn("notFound", c, NoEntry)
    /\ RegistryCall(IF FindActive(watchlist, c) THEN "toggleNotifications"
                    ELSE "toggleNotificationsNotFound", c)
    /\ UNCHANGED markReads

\* the position of chat c in ids (the index the bulk operation writes), 0-based
IndexOf(ids, c) == (CHOOSE i \in DOMAIN ids : ids[i] = c) - 1

ReorderKeeps(wl, ids) == wl

\* Watchlist.reorder(orderedIds): one updateOne({ chatId }, { order: index })
\* per id, applied as one bulkWrite
Reorder(wl, ids) ==
    [c \in DOMAIN wl |->
        IF wl[c].exists /\ \E i \in DOMAIN ids : ids[i] = c
        THEN [wl[c] EXCEPT !.order = IndexOf(ids, c)]
        ELSE wl[c]]

\* the id sequences reorder is called with: distinct ids
OrderedIds == {q \in [1..1 -> Chats] \cup [1..2 -> Chats] :
                   \A i, j \in DOMAIN q : i # j => q[i] # q[j]}

\* WatchlistService.reorderWatchlist(orderedIds)
ReorderWatchlist(ids) ==
    /\ watchlist' = Reorder(watchlist, ids)
    /\ RegistryCall("reorder", ids[1])
    /\ UNCHANGED <<markReads, addRet>>

\* the sequences over the chats of S without repetition
Arrangements(S) == {q \in [1..Cardinality(S) -> S] :
                        \A i, j \in DOMAIN q : i # j => q[i] # q[j]}

\* Watchlist.getActiveWatchlist(): find({ isActive: true }) sorted by pinned
\* descending, then lastMessage.timestamp descending; every order of equal
\* keys is a possible result
GetActiveWatchlist(wl) ==
    {q \in Arrangements(Active(wl)) :
        \A i, j \in DOMAIN q : i < j =>
            \/ wl[q[i]].pinned /\ ~wl[q[j]].pinned
            \/ /\ wl[q[i]].pinned = wl[q[j]].pinned
               /\ wl[q[i]].lastMessage.timestamp >= wl[q[j]].lastMessage.timestamp}

\* find({ isActive: true }).sort({ order: 1 }): the query the compound index
\* { isActive, order } serves
GetOrderedWatchlist(wl) ==
    {q \in Arrangements(Active(wl)) :
        \A i, j \in DOMAIN q : i < j => wl[q[i]].order <= wl[q[j]].order}

(***************************************************************************)
(* Group auto-messages: settings, texts and handler records                *)
(***************************************************************************)
\* A text is a sequence of pieces; the placeholder and the at-sign are pieces
\* of their own, so that String.replace can be computed on them.
User == "{user}"
At == "@"

\* members that join or leave, and what their contacts resolve to
Members == {"x1@c.us", "x2@c.us"}
ContactNumber(id) == IF id = "x1@c.us" THEN "h1" ELSE ""
IdUser(id) == IF id = "x1@c.us" THEN "x1" ELSE "x2"

\* contact.number || contact.id.user
Handle(id) == IF ContactNumber(id) # "" THEN ContactNumber(id) ELSE IdUser(id)

\* notification.recipientIds of the events delivered
RecipientLists == {<<"x1@c.us">>, <<"x2@c.us", "x1@c.us">>}

\* positions at which pat occurs in text
Occurrences(text, pat) ==
    {i \in 1..(Len(text) - Len(pat) + 1) : SubSeq(text, i, i + Len(pat) - 1) = pat}

\* String.prototype.replace(pat, rep) with a string pattern: the first
\* occurrence only
Replace(text, pat, rep) ==
    IF Occurrences(text, pat) = {} THEN text
    ELSE LET i == CHOOSE k \in Occurrences(text, pat) :
                        \A j \in Occurrences(text, pat) : k <= j
         IN SubSeq(text, 1, i - 1) \o rep \o SubSeq(text, i + Len(pat), Len(text))

\* autoMessageConfigSchema defaults and the default welcome / farewell of a
\* GroupSettings document (the emoji that ends both texts is left out)
DefaultDelay == 3000
DefaultWelcome ==
    [enabled |-> FALSE, message |-> <<"Welcome to the group, ", At, User, "!">>,
     mentionUser |-> TRUE, includeGroupRules |-> FALSE, delay |-> DefaultDelay]
DefaultFarewell ==
    [enabled |-> FALSE, message |-> <<"Goodbye, ", User, "! We'll miss you.">>,
     mentionUser |-> FALSE, includeGroupRules |-> FALSE, delay |-> DefaultDelay]
DefaultRules ==
    [enabled |-> FALSE, message |-> << >>,
     mentionUser |-> FALSE, includeGroupRules |-> FALSE, delay |-> DefaultDelay]

\* GroupSettings.findOne({ groupId, isActive: true }) finds nothing
NoSettings == [exists |-> FALSE, welcome |-> DefaultWelcome, farewell |-> DefaultFarewell,
               rules |-> DefaultRules, groupRules |-> << >>]

\* the GroupSettings documents considered
SettingsDocs ==
    { NoSettings,
      [NoSettings EXCEPT !.exists = TRUE],
      [NoSettings EXCEPT !.exists = TRUE,
                         !.welcome.enabled = TRUE,
                         !.welcome.message = <<"Hi ", At, User, "!">>,
                         !.welcome.delay = 0,
                         !.farewell.enabled = TRUE],
      [NoSettings EXCEPT !.exists = TRUE,
                         !.welcome.enabled = TRUE,
                         !.welcome.message = <<"Hi ", User, ", ", User>>,
                         !.welcome.includeGroupRules = TRUE,
                         !.groupRules = <<"be kind">>],
      [NoSettings EXCEPT !.exists = TRUE,
                         !.welcome.enabled = TRUE,
                         !.welcome.mentionUser = FALSE] }

\* join / leave handler invocations in flight: they share no state with one
\* another, one at a time is followed
GSlots == {1}

\* a handler invocation: its position, its event, what it has built and done
GIdle == [pc |-> "idle", kind |-> "none", ids |-> << >>, afterFailure |-> FALSE,
          enabled |-> FALSE, waitMs |-> 0, quiet |-> FALSE, rowsAt |-> 0, idx |-> 0,
          text |-> << >>, mentions |-> << >>, contacts |-> 0, sends |-> 0,
          sentText |-> << >>, sentMentions |-> << >>, sendFailed |-> FALSE,
          doc |-> NoSettings]

\* what a join / leave handler did, recorded when it returns or throws
GLogOf(pr, outcome, sinkThrew, watched, updateBcast) ==
    [kind |-> pr.kind, ids |-> pr.ids, outcome |-> outcome,
     sinkThrew |-> sinkThrew, afterFailure |-> pr.afterFailure, enabled |-> pr.enabled,
     contacts |-> pr.contacts, sends |-> pr.sends, sentText |-> pr.sentText,
     sentMentions |-> pr.sentMentions, sendFailed |-> pr.sendFailed,
     watched |-> watched, updateBcast |-> updateBcast]

NoGLog == GLogOf(GIdle, "none", FALSE, FALSE, FALSE)

InitGroups ==
    /\ settings = NoSettings
    /\ gprocs = [p \in GSlots |-> GIdle]
    /\ glog = NoGLog

\* an addToWatchlist call slot with no call in it
AddIdle == [pc |-> "idle", chat |-> Null, doc |-> NoEntry]

NoAddRet == [outcome |-> "none", chat |-> Null, entry |-> NoEntry, rejected |-> 0]

(***************************************************************************)
(* Initial states                                                          *)
(***************************************************************************)
ClientIds == 1..MaxClients

NoSessionDoc == [exists |-> FALSE, status |-> DISCONNECTED, authenticated |-> FALSE]

\* the dispatcher and the message store before the first event
InitDispatcher ==
    /\ messages = << >>
    /\ procs = [p \in Slots |-> Idle]
    /\ bcast = << >>
    /\ lastOp = NoOp
    /\ logRet = NoRowRec
    /\ nEvents = 0
    /\ inbound = [c \in Chats |-> {}]
    /\ inboundCount = [c \in Chats |-> 0]
    /\ markReads = [c \in Chats |-> 0]
    /\ revokeObs = {}
    /\ watchSeen = {}
    /\ watchBcasts = {}
    /\ addProcs = [p \in Slots |-> AddIdle]
    /\ dupDocs = [c \in Chats |-> 0]
    /\ addRet = NoAddRet

InitStore ==
    /\ watchlist = [c \in Chats |-> NoEntry]
    /\ InitDispatcher

\* module load of config/whatsapp.js: client = null, DISCONNECTED, no QR
InitSession ==
    /\ client = 0
    /\ clientStatus = DISCONNECTED
    /\ currentQR = Null
    /\ phase = [k \in ClientIds |-> "unborn"]
    /\ initCall = [k \in ClientIds |-> "none"]
    /\ pendingWrites = << >>
    /\ sessionDoc = NoSessionDoc
    /\ handlerSets = [k \in ClientIds |-> 0]
    /\ sessOp = "none"
    /\ sessSteps = 0
    /\ initRet = "none"

\* the session after initialize, authenticated (restored credentials) and ready
\* of the first client, with its Session writes applied: the state in which
\* the dispatcher's handlers are attached and events flow
InitOperational ==
    /\ client = 1
    /\ clientStatus = READY
    /\ currentQR = Null
    /\ phase = [k \in ClientIds |-> IF k = 1 THEN "ready" ELSE "unborn"]
    /\ initCall = [k \in ClientIds |-> IF k = 1 THEN "resolved" ELSE "none"]
    /\ pendingWrites = << >>
    /\ sessionDoc = [exists |-> TRUE, status |-> READY, authenticated |-> TRUE]
    /\ handlerSets = [k \in ClientIds |-> IF k = 1 THEN 1 ELSE 0]
    /\ sessOp = "ready"
    /\ sessSteps = 3
    /\ initRet = "null"

Init == InitStore /\ InitSession /\ InitGroups

InitIngest == InitStore /\ InitOperational /\ InitGroups

(***************************************************************************)
(* Ingestion model: inbound and self-sent messages against the registry    *)
(***************************************************************************)
NextIngest ==
    \/ \E id \in MsgIds, b \in Bodies : DeliverMessage(id, b)
    \/ \E id \in MsgIds, b \in Bodies : DeliverMessageCreate(id, b)
    \/ \E p \in Slots : GetChatStep(p)
    \/ \E p \in Slots : FindWatchStep(p)
    \/ \E p \in Slots : SaveWatchStep(p)
    \/ \E p \in Slots : LogFindStep(p)
    \/ \E p \in Slots : LogCreateStep(p)
    \/ \E c \in Chats : AddToWatchlist(c)
    \/ \E c \in Chats : RemoveFromWatchlist(c)
    \/ \E c \in Chats : MarkAsRead(c)

SpecIngest == InitIngest /\ [][NextIngest]_vars

(***************************************************************************)
(* Session state machine (config/whatsapp.js) and its listeners in app.js  *)
(***************************************************************************)
Unborn(k) == phase[k] = "unborn"

Live == {k \in ClientIds : phase[k] \notin {"unborn", "closed"}}

\* new Client(...): the next instance not yet constructed
NextClient == CHOOSE k \in ClientIds : Unborn(k) /\ \A j \in ClientIds : Unborn(j) => k <= j

\* Session.findOneAndUpdate issued by the "status" listener
StatusWrite(st) == [status |-> st, authenticated |-> "keep", upsert |-> TRUE, attach |-> FALSE]

\* Session.updateClientInfo issued by the "ready" listener, which afterwards
\* calls initializeEventHandlers()
ClientInfoWrite == [status |-> READY, authenticated |-> "true", upsert |-> TRUE, attach |-> TRUE]

\* Session.findOneAndUpdate of the logout and clear-session controllers
ControllerWrite == [status |-> DISCONNECTED, authenticated |-> "false", upsert |-> FALSE,
                    attach |-> FALSE]

\* clientEvents.emit("status", clientStatus): the listener in app.js broadcasts
\* the status and issues the upsert of the Session document. `before` are the
\* broadcasts and `writesBefore` the writes of listeners that ran earlier in
\* the same event
EmitStatus(st, before, writesBefore) ==
    /\ bcast' = before \o <<Broadcast(WS_CLIENT_STATUS, [status |-> st])>>
    /\ pendingWrites' = pendingWrites \o writesBefore \o <<StatusWrite(st)>>

SessionStep(op) ==
    /\ sessSteps < MaxSessionSteps
    /\ sessSteps' = sessSteps + 1
    /\ sessOp' = op
    /\ UNCHANGED <<storeVars, dispOther, autoVars, regVars>>

\* initializeAsync() up to its await client.initialize(): a new Client replaces
\* the module-level instance, listeners attached
InitializeAsync(k) ==
    /\ clientStatus' = INITIALIZING
    /\ client' = k
    /\ phase' = [phase EXCEPT ![k] = "starting"]
    /\ initCall' = [initCall EXCEPT ![k] = "pending"]

\* initializeClient(): returns the existing client when it is READY, otherwise
\* starts initializeAsync() in the background
InitializeClient ==
    /\ SessionStep("initialize")
    /\ IF client # 0 /\ clientStatus = READY
       THEN /\ bcast' = << >>
            /\ initRet' = "client"
            /\ UNCHANGED <<client, clientStatus, phase, initCall, pendingWrites>>
       ELSE /\ \E k \in ClientIds : Unborn(k)
            /\ InitializeAsync(NextClient)
            /\ EmitStatus(INITIALIZING, << >>, << >>)
            /\ initRet' = "null"
    /\ UNCHANGED <<currentQR, sessionDoc, handlerSets>>

\* await client.initialize() resolves
InitializeResolves(k) ==
    /\ initCall[k] = "pending"
    /\ initCall' = [initCall EXCEPT ![k] = "resolved"]
    /\ sessOp' = "initResolved"
    /\ bcast' = << >>
    /\ initRet' = initRet
    /\ UNCHANGED <<client, clientStatus, currentQR, phase, pendingWrites, sessionDoc,
                    handlerSets, sessSteps, storeVars, dispOther, autoVars, regVars>>

InitFailureStatusKept(st) == st

\* initializeAsync().catch(...): clientStatus = CLIENT_STATUS.FAILED
InitFailureStatus(st) == FAILED

\* await client.initialize() rejects: the catch attached by initializeClient
\* runs; the call itself returned before, so nothing reaches its caller
InitializeRejects(k) ==
    /\ SessionStep("initFailed")
    /\ initCall[k] = "pending"
    /\ initCall' = [initCall EXCEPT ![k] = "rejected"]
    /\ clientStatus' = InitFailureStatus(clientStatus)
    /\ EmitStatus(clientStatus', << >>, << >>)
    /\ initRet' = initRet
    /\ UNCHANGED <<client, currentQR, phase, sessionDoc, handlerSets>>

\* client.on("qr"); the "qr" listener of app.js broadcasts the payload
OnQr(k, qr) ==
    /\ SessionStep("qr")
    /\ initRet' = initRet
    /\ phase[k] \in {"starting", "pairing"}
    /\ phase' = [phase EXCEPT ![k] = "pairing"]
    /\ currentQR' = qr
    /\ clientStatus' = QR_READY
    /\ EmitStatus(QR_READY, <<Broadcast(WS_CLIENT_QR, [qr |-> qr])>>, << >>)
    /\ UNCHANGED <<client, initCall, sessionDoc, handlerSets>>

\* client.on("authenticated")
OnAuthenticated(k) ==
    /\ SessionStep("authenticated")
    /\ initRet' = initRet
    /\ phase[k] \in {"starting", "pairing"}
    /\ phase' = [phase EXCEPT ![k] = "authed"]
    /\ currentQR' = Null
    /\ clientStatus' = AUTHENTICATED
    /\ EmitStatus(AUTHENTICATED, << >>, << >>)
    /\ UNCHANGED <<client, initCall, sessionDoc, handlerSets>>

\* client.on("ready"); the "ready" listener of app.js broadcasts client.info
\* and issues updateClientInfo before the "status" listener runs
OnReady(k) ==
    /\ SessionStep("ready")
    /\ initRet' = initRet
    /\ phase[k] = "authed"
    /\ phase' = [phase EXCEPT ![k] = "ready"]
    /\ clientStatus' = READY
    /\ EmitStatus(READY, <<Broadcast(WS_CLIENT_READY, [info |-> client])>>, <<ClientInfoWrite>>)
    /\ UNCHANGED <<client, currentQR, initCall, sessionDoc, handlerSets>>

\* client.on("disconnected"); the "disconnected" listener of app.js broadcasts
\* the reason
OnDisconnected(k) ==
    /\ SessionStep("disconnected")
    /\ initRet' = initRet
    /\ phase[k] \in {"authed", "ready"}
    /\ phase' = [phase EXCEPT ![k] = "closed"]
    /\ clientStatus' = DISCONNECTED
    /\ currentQR' = Null
    /\ EmitStatus(DISCONNECTED, <<Broadcast(WS_CLIENT_DISCONNECTED, [reason |-> "reason"])>>,
                  << >>)
    /\ UNCHANGED <<client, initCall, sessionDoc, handlerSets>>

\* client.on("auth_failure"): stored credentials were rejected
OnAuthFailure(k) ==
    /\ SessionStep("auth_failure")
    /\ initRet' = initRet
    /\ phase[k] = "starting"
    /\ phase' = [phase EXCEPT ![k] = "closed"]
    /\ clientStatus' = FAILED
    /\ EmitStatus(FAILED, << >>, << >>)
    /\ UNCHANGED <<client, currentQR, initCall, sessionDoc, handlerSets>>

\* destroyClient(), called by the clear-session controller, which ignores its
\* error and then writes the Session document
DestroyClient(ok) ==
    /\ SessionStep("destroy")
    /\ IF client # 0 /\ ok
       THEN /\ phase' = [phase EXCEPT ![client] = "closed"]
            /\ client' = 0
            /\ clientStatus' = DISCONNECTED
            /\ currentQR' = Null
       ELSE UNCHANGED <<phase, client, clientStatus, currentQR>>
    /\ pendingWrites' = Append(pendingWrites, ControllerWrite)
    /\ bcast' = << >>
    /\ initRet' = initRet
    /\ UNCHANGED <<initCall, sessionDoc, handlerSets>>

\* logoutClient(), called through WhatsAppService.logout by the logout
\* controller, which writes the Session document when logout did not throw
LogoutClient(ok) ==
    /\ SessionStep("logout")
    /\ IF client # 0 /\ ok
       THEN /\ phase' = [phase EXCEPT ![client] = "closed"]
            /\ clientStatus' = DISCONNECTED
            /\ currentQR' = Null
       ELSE UNCHANGED <<phase, clientStatus, currentQR>>
    /\ pendingWrites' = IF client = 0 \/ ok THEN Append(pendingWrites, ControllerWrite)
                         ELSE pendingWrites
    /\ bcast' = << >>
    /\ initRet' = initRet
    /\ UNCHANGED <<client, initCall, sessionDoc, handlerSets>>

RemoveAt(seq, i) == [j \in 1..(Len(seq) - 1) |-> IF j < i THEN seq[j] ELSE seq[j + 1]]

\* the document after findOneAndUpdate(w): without upsert a missing document
\* stays missing
ApplySessionWrite(doc, w) ==
    IF ~doc.exists /\ ~w.upsert THEN doc
    ELSE [exists |-> TRUE,
          status |-> w.status,
          authenticated |-> IF w.authenticated = "keep"
                            THEN doc.authenticated
                            ELSE w.authenticated = "true"]

\* the store applies one of the Session writes in flight; the "ready" listener
\* resumes after updateClientInfo and runs initializeEventHandlers(), which
\* attaches one more set of handlers to getClient()
ApplyWrite(i) ==
    /\ i \in DOMAIN pendingWrites
    /\ sessionDoc' = ApplySessionWrite(sessionDoc, pendingWrites[i])
    /\ pendingWrites' = RemoveAt(pendingWrites, i)
    /\ handlerSets' = IF pendingWrites[i].attach /\ client # 0
                       THEN [handlerSets EXCEPT ![client] = @ + 1]
                       ELSE handlerSets
    /\ sessOp' = "write"
    /\ bcast' = << >>
    /\ initRet' = initRet
    /\ UNCHANGED <<client, clientStatus, currentQR, phase, initCall, sessSteps, storeVars,
                    dispOther, autoVars, regVars>>

QRs == {"qr1", "qr2"}

NextSession ==
    \/ InitializeClient
    \/ \E k \in ClientIds : InitializeResolves(k)
    \/ \E k \in ClientIds : InitializeRejects(k)
    \/ \E k \in ClientIds, qr \in QRs : OnQr(k, qr)
    \/ \E k \in ClientIds : OnAuthenticated(k)
    \/ \E k \in ClientIds : OnReady(k)
    \/ \E k \in ClientIds : OnDisconnected(k)
    \/ \E k \in ClientIds : OnAuthFailure(k)
    \/ \E ok \in BOOLEAN : DestroyClient(ok)
    \/ \E ok \in BOOLEAN : LogoutClient(ok)
    \/ \E i \in 1..MaxSessionSteps : ApplyWrite(i)

SpecSession == Init /\ [][NextSession]_vars

(***************************************************************************)
(* Reconciliation: single-operation handlers and service calls             *)
(***************************************************************************)
Min(a, b) == IF a < b THEN a ELSE b

\* { isDeleted: true, body: "This message was deleted" }
RevokeUpdate(row) == [row EXCEPT !.isDeleted = TRUE, !.body = Tombstone]

\* { body: newBody, isEdited: true }
EditUpdate(row, newBody) == [row EXCEPT !.body = newBody, !.isEdited = TRUE]

\* MessageService.deleteMessage: { isDeleted: true }
DeleteUpdate(row) == [row EXCEPT !.isDeleted = TRUE]

\* { $push: { reactions: { emoji, senderId, timestamp } } }; the timestamp is
\* the wall clock and is left out
PushReaction(row, emoji, sender) ==
    [row EXCEPT !.reactions = Append(@, [emoji |-> emoji, senderId |-> sender])]

PullEveryReaction(row, sender) == [row EXCEPT !.reactions = << >>]

\* { $pull: { reactions: { senderId } } }
PullReaction(row, sender) ==
    [row EXCEPT !.reactions = SelectSeq(@, LAMBDA r : r.senderId # sender)]

RevokeBroadcastWithBody(id, body) ==
    <<Broadcast(WS_MESSAGE_REVOKED, [messageId |-> id, body |-> body])>>

\* broadcast(WS_EVENTS.MESSAGE_REVOKED, { messageId })
RevokeBroadcast(id, body) == <<Broadcast(WS_MESSAGE_REVOKED, [messageId |-> id])>>

\* getChatMessages: the rows the query matches. A cursor of 0 stands for null.
MatchingIgnoreDeleted(rows, chatId, before, after, includeDeleted) ==
    {i \in DOMAIN rows :
        /\ rows[i].chatId = chatId
        /\ (before # 0 => rows[i].timestamp < before)
        /\ (before = 0 /\ after # 0 => rows[i].timestamp > after)}

Matching(rows, chatId, before, after, includeDeleted) ==
    {i \in DOMAIN rows :
        /\ rows[i].chatId = chatId
        /\ (includeDeleted \/ ~rows[i].isDeleted)
        /\ (before # 0 => rows[i].timestamp < before)
        /\ (before = 0 /\ after # 0 => rows[i].timestamp > after)}

TopSetsOldest(rows, M, limit) ==
    {K \in SUBSET M :
        /\ Cardinality(K) = Min(limit, Cardinality(M))
        /\ \A k \in K, j \in M \ K : rows[k].timestamp <= rows[j].timestamp}

\* sort({ timestamp: -1 }).limit(limit): the rows kept; the store leaves the
\* order of rows with equal timestamps open, so there may be several choices
TopSets(rows, M, limit) ==
    {K \in SUBSET M :
        /\ Cardinality(K) = Min(limit, Cardinality(M))
        /\ \A k \in K, j \in M \ K : rows[k].timestamp >= rows[j].timestamp}

\* messages.reverse(): ascending by timestamp
AscendingOrders(rows, K) ==
    {s \in [1..Cardinality(K) -> K] :
        /\ \A i, j \in 1..Cardinality(K) : i # j => s[i] # s[j]
        /\ \A i, j \in 1..Cardinality(K) : i < j => rows[s[i]].timestamp <= rows[s[j]].timestamp}

\* Message.getChatMessages(chatId, { limit, before, after, includeDeleted }):
\* the pages the call may return
GetChatMessages(rows, chatId, limit, before, after, includeDeleted) ==
    UNION {{[i \in DOMAIN s |-> rows[s[i]]] : s \in AscendingOrders(rows, K)} :
            K \in TopSets(rows, Matching(rows, chatId, before, after, includeDeleted), limit)}

ReconStep(op) ==
    /\ nEvents < MaxOps
    /\ nEvents' = nEvents + 1
    /\ lastOp' = op
    /\ UNCHANGED <<watchlist, procs, inbound, inboundCount, watchSeen, watchBcasts, markReads, sessVars, autoVars, regVars>>

\* MessageService.logMessage(message): Message.logMessage run to completion
LogMessageCall(id, body) ==
    /\ LET message == WaMessage(id, body)
           i == FindOne(messages, id) IN
        IF i # NoRow
        THEN /\ ReconStep(OpRec("logFound", id, MsgChat(id), body, Null, ""))
             /\ messages' = LogMessageOnFound(messages, i, message).rows
             /\ logRet' = LogMessageOnFound(messages, i, message).ret
        ELSE /\ ReconStep(OpRec("logCreated", id, MsgChat(id), body, Null, ""))
             /\ CanInsert(messages, NewRow(message))
             /\ messages' = LogMessageOnCreate(messages, message).rows
             /\ logRet' = LogMessageOnCreate(messages, message).ret
    /\ bcast' = << >>
    /\ UNCHANGED revokeObs

\* handleMessageRevoke(message, revokedMsg): the handler takes the messageId
\* from revokedMsg and does nothing when revokedMsg is undefined (NoMsg)
HandleMessageRevoke(revokedMsg) ==
    /\ IF revokedMsg # NoMsg
       THEN /\ ReconStep(OpRec("revoke", revokedMsg.id, MsgChat(revokedMsg.id),
                               revokedMsg.body, Null, ""))
            /\ messages' = UpdateOne(messages, revokedMsg.id, [i \in DOMAIN messages |-> RevokeUpdate(messages[i])])
            /\ bcast' = RevokeBroadcast(revokedMsg.id, revokedMsg.body)
            /\ revokeObs' = revokeObs \cup
                    {[id |-> revokedMsg.id, body |-> revokedMsg.body,
                      data |-> RevokeBroadcast(revokedMsg.id, revokedMsg.body)[1].data]}
       ELSE /\ ReconStep(OpRec("revokeNoOriginal", Null, Null, "", Null, ""))
            /\ bcast' = << >>
            /\ UNCHANGED <<messages, revokeObs>>
    /\ UNCHANGED logRet

\* handleMessageEdit(message, newBody, oldBody)
HandleMessageEdit(id, newBody, oldBody) ==
    /\ ReconStep(OpRec("edit", id, MsgChat(id), newBody, Null, ""))
    /\ messages' = UpdateOne(messages, id, [i \in DOMAIN messages |-> EditUpdate(messages[i], newBody)])
    /\ bcast' = <<Broadcast(WS_MESSAGE_EDIT,
                             [messageId |-> id, newBody |-> newBody, oldBody |-> oldBody])>>
    /\ UNCHANGED <<logRet, revokeObs>>

\* ["error", "pending", "sent", "received", "read", "played"][ack + 1]
AckLabel(ack) == <<"error", "pending", "sent", "received", "read", "played">>[ack + 2]

Max(a, b) == IF a > b THEN a ELSE b

\* { ack }
AckUpdate(row, ack) == [row EXCEPT !.ack = ack]

\* the ack levels the session reports in the model
AckLevels == {AckError, AckSent, AckRead}

\* handleMessageAck(message, ack)
HandleMessageAck(id, ack) ==
    /\ ReconStep(OpRec("ack", id, MsgChat(id), "", Null, ""))
    /\ messages' = UpdateOne(messages, id, [i \in DOMAIN messages |-> AckUpdate(messages[i], ack)])
    /\ bcast' = <<Broadcast(WS_MESSAGE_ACK,
                             [messageId |-> id, ack |-> ack, ackLabel |-> AckLabel(ack)])>>
    /\ UNCHANGED <<logRet, revokeObs>>

\* the store update of handleMessageReaction(reaction)
ReactionUpdate(rows, id, sender, emoji) ==
    IF emoji # ""
    THEN UpdateOne(rows, id, [i \in DOMAIN rows |-> PushReaction(rows[i], emoji, sender)])
    ELSE UpdateOne(rows, id, [i \in DOMAIN rows |-> PullReaction(rows[i], sender)])

\* handleMessageReaction(reaction)
HandleMessageReaction(id, sender, emoji) ==
    /\ ReconStep(OpRec("reaction", id, MsgChat(id), "", sender, emoji))
    /\ messages' = ReactionUpdate(messages, id, sender, emoji)
    /\ bcast' = <<Broadcast(WS_MESSAGE_REACTION,
                             [reaction |-> emoji, senderId |-> sender, msgId |-> id])>>
    /\ UNCHANGED <<logRet, revokeObs>>

\* MessageService.editMessage(messageId, newContent): only a message sent by
\* this account can be edited
EditMessage(id, newContent) ==
    /\ IsClientReady
    /\ IF MsgFromMe(id)
       THEN /\ ReconStep(OpRec("editMessage", id, MsgChat(id), newContent, Null, ""))
            /\ messages' = UpdateOne(messages, id, [i \in DOMAIN messages |-> EditUpdate(messages[i], newContent)])
       ELSE /\ ReconStep(OpRec("editMessageRefused", id, MsgChat(id), newContent, Null, ""))
            /\ UNCHANGED messages
    /\ bcast' = << >>
    /\ UNCHANGED <<logRet, revokeObs>>

\* MessageService.deleteMessage(messageId, everyone)
DeleteMessage(id, everyone) ==
    /\ IsClientReady
    /\ ReconStep(OpRec(IF everyone THEN "deleteEveryone" ELSE "deleteForMe",
                       id, MsgChat(id), "", Null, ""))
    /\ messages' = IF everyone THEN UpdateOne(messages, id, [i \in DOMAIN messages |-> DeleteUpdate(messages[i])]) ELSE messages
    /\ bcast' = << >>
    /\ UNCHANGED <<logRet, revokeObs>>

ReconIds == {"m1", "m2", "m3"}

\* the revokedMsg argument of a revoke event: the message before it was
\* revoked, or undefined
RevokedMsgs == {NoMsg} \cup {WaMessage(id, b) : id \in ReconIds, b \in Bodies}

NextRecon ==
    \/ \E id \in ReconIds, b \in Bodies : LogMessageCall(id, b)
    \/ \E rm \in RevokedMsgs : HandleMessageRevoke(rm)
    \/ \E id \in ReconIds, b, old \in Bodies : HandleMessageEdit(id, b, old)
    \/ \E id \in ReconIds, sn \in Senders, e \in Emojis : HandleMessageReaction(id, sn, e)
    \/ \E id \in ReconIds, b \in Bodies : EditMessage(id, b)
    \/ \E id \in ReconIds, ev \in BOOLEAN : DeleteMessage(id, ev)

SpecRecon == InitIngest /\ [][NextRecon]_vars

(***************************************************************************)
(* handleGroupJoin / handleGroupLeave, one awaited operation per step       *)
(***************************************************************************)
FallbackDelay == 3000

\* config.delay || 3000
DelayMs(config) == IF config.delay = 0 THEN FallbackDelay ELSE config.delay

DelayBusyWaits(ms) == TRUE

\* delay(ms): a promise resolved by setTimeout; the awaiting handler gives the
\* thread back, it does not occupy it for ms
DelayBlocks(ms) == FALSE

\* no handler occupies the thread: other handlers and deliveries can run
LoopFree == \A p \in GSlots : gprocs[p].pc = "delay" => ~DelayBlocks(gprocs[p].waitMs)

ListenerRethrows(kind) == "escaped"

\* try { await handleGroupJoin(notification) } catch (error) { logger.error }
\* of the listeners registered by initializeEventHandlers
ListenerOutcome(kind) == "caught"

GFreeSlot == CHOOSE p \in GSlots :
                /\ gprocs[p].pc = "idle"
                /\ \A q \in GSlots : gprocs[q].pc = "idle" => p <= q

\* formatGroupNotification(notification)
FormatGroupNotification(kind, ids) == [type |-> kind, chatId |-> GroupChat, recipientIds |-> ids]

\* the auto-message configuration a handler of this kind reads
ConfigOf(doc, kind) == IF kind = "join" THEN doc.welcome ELSE doc.farewell

TriggerAlways(doc, kind) == TRUE

\* settings?.autoMessages?.welcome?.enabled (farewell for a leave)
TriggerEnabled(doc, kind) == doc.exists /\ ConfigOf(doc, kind).enabled

AfterSendRetry(ok) == IF ok THEN "watch" ELSE "send"

\* the catch around the send logs the failure; the handler goes on to the
\* watchlist lookup whether sendMessage resolved or rejected
AfterSend(ok) == "watch"

HandlerSettingsReread(pr, current) == current

\* the settings document a handler works with: the one its findOne returned
\* (const config = settings.autoMessages.welcome is read before the delay)
HandlerSettings(pr, current) == pr.doc

\* a step of the group handlers leaves everything but their own state alone
GroupStep(op) ==
    /\ LoopFree
    /\ lastOp' = OpRec(op, Null, GroupChat, "", Null, "")
    /\ UNCHANGED <<storeVars, procs, logRet, inbound, inboundCount, markReads, revokeObs,
                    watchSeen, watchBcasts, sessVars, regVars, settings>>

\* client.on("group_join") / client.on("group_leave"): the handler broadcasts
\* the membership event and awaits GroupSettings.findOne; a throwing sink
\* ends the handler in the listener's catch
HandleGroupEvent(kind, ids, sinkOk) ==
    /\ GroupStep(IF kind = "join" THEN "group_join" ELSE "group_leave")
    /\ nEvents < MaxEvents
    /\ \E p \in GSlots : gprocs[p].pc = "idle"
    /\ nEvents' = nEvents + 1
    /\ bcast' = <<Broadcast(IF kind = "join" THEN WS_GROUP_JOIN ELSE WS_GROUP_LEAVE,
                            FormatGroupNotification(kind, ids))>>
    /\ LET pr == [GIdle EXCEPT !.pc = "settings", !.kind = kind, !.ids = ids,
                                !.afterFailure = glog.outcome = "caught"] IN
        IF sinkOk
        THEN /\ gprocs' = [gprocs EXCEPT ![GFreeSlot] = pr]
             /\ UNCHANGED glog
        ELSE /\ glog' = GLogOf(pr, ListenerOutcome(kind), TRUE, FALSE, FALSE)
             /\ UNCHANGED gprocs

HandleGroupJoin(ids, sinkOk) == HandleGroupEvent("join", ids, sinkOk)

HandleGroupLeave(ids, sinkOk) == HandleGroupEvent("leave", ids, sinkOk)

\* await GroupSettings.findOne({ groupId, isActive: true }) resolves or
\* rejects; with the trigger enabled the handler starts its delay
SettingsLookupStep(p, ok) ==
    /\ GroupStep("settings")
    /\ gprocs[p].pc = "settings"
    /\ bcast' = << >>
    /\ LET pr == gprocs[p]
           config == ConfigOf(settings, pr.kind) IN
        IF ~ok
        THEN /\ glog' = GLogOf(pr, ListenerOutcome(pr.kind), FALSE, FALSE, FALSE)
             /\ gprocs' = [gprocs EXCEPT ![p] = GIdle]
        ELSE /\ gprocs' = [gprocs EXCEPT ![p] =
                    IF TriggerEnabled(settings, pr.kind)
                    THEN [pr EXCEPT !.pc = "delay", !.enabled = TRUE,
                                    !.doc = settings,
                                    !.waitMs = DelayMs(config),
                                    !.quiet = AllIdle, !.rowsAt = Len(messages)]
                    ELSE [pr EXCEPT !.pc = "watch"]]
             /\ UNCHANGED glog
    /\ UNCHANGED nEvents

\* the timer of await delay(...) fires; the handler starts building the text
DelayStep(p) ==
    /\ gprocs[p].pc = "delay"
    /\ lastOp' = OpRec("delayed", Null, GroupChat, "", Null, "")
    /\ bcast' = << >>
    /\ LET pr == gprocs[p]
           config == ConfigOf(HandlerSettings(pr, settings), pr.kind) IN
        gprocs' = [gprocs EXCEPT ![p] =
            IF pr.kind = "join"
            THEN [pr EXCEPT !.pc = "contact", !.idx = 1, !.text = config.message]
            ELSE [pr EXCEPT !.pc = "getChatById",
                            !.text = Replace(config.message, <<User>>,
                                             <<IF Len(pr.ids) = 1 THEN "member"
                                               ELSE "members">>)]]
    /\ UNCHANGED <<storeVars, procs, logRet, nEvents, inbound, inboundCount, markReads,
                    revokeObs, watchSeen, watchBcasts, sessVars, regVars, settings, glog>>

\* the welcome text after the contact of id was resolved
MentionText(text, config, id) ==
    IF config.mentionUser
    THEN Replace(Replace(text, <<User>>, <<At, Handle(id)>>), <<At, User>>, <<At, Handle(id)>>)
    ELSE text

\* the text handed to sendMessage: the rules are appended when configured
WithRules(text, config, doc) ==
    IF config.includeGroupRules /\ doc.groupRules # << >>
    THEN text \o <<"rules: ">> \o doc.groupRules
    ELSE text

AfterContactAborts(ok, last) == IF ~ok THEN "watch" ELSE IF last THEN "getChatById" ELSE "contact"

\* the for loop over joinedIds: the catch inside the loop body swallows the
\* rejection of one member, the loop goes on with the next
AfterContact(ok, last) == IF last THEN "getChatById" ELSE "contact"

\* await client.getContactById(id) of the next joined member resolves or
\* rejects (caught per member); after the last one the rules are appended
ContactStep(p, ok) ==
    /\ GroupStep("contact")
    /\ gprocs[p].pc = "contact"
    /\ bcast' = << >>
    /\ LET pr == gprocs[p]
           doc == HandlerSettings(pr, settings)
           config == ConfigOf(doc, pr.kind)
           id == pr.ids[pr.idx]
           text == IF ok THEN MentionText(pr.text, config, id) ELSE pr.text
           last == pr.idx = Len(pr.ids) IN
        gprocs' = [gprocs EXCEPT ![p] =
            [pr EXCEPT !.contacts = @ + 1,
                       !.mentions = IF ok THEN Append(@, id) ELSE @,
                       !.idx = @ + 1,
                       !.text = IF last THEN WithRules(text, config, doc) ELSE text,
                       !.pc = AfterContact(ok, last)]]
    /\ UNCHANGED <<nEvents, glog>>

\* await client.getChatById(groupId) resolves or rejects (caught: no send)
GetChatByIdStep(p, ok) ==
    /\ GroupStep("getChatById")
    /\ gprocs[p].pc = "getChatById"
    /\ bcast' = << >>
    /\ gprocs' = [gprocs EXCEPT ![p].pc = IF ok THEN "send" ELSE "watch",
                                 ![p].sendFailed = ~ok]
    /\ UNCHANGED <<nEvents, glog>>

\* the options of sendMessage: { mentions: config.mentionUser ? mentions : [] }
\* for a welcome, none for a farewell
MentionsSent(pr, config) ==
    IF pr.kind = "join" /\ config.mentionUser THEN pr.mentions ELSE << >>

\* await chat.sendMessage(message, options) resolves or rejects (caught)
SendMessageStep(p, ok) ==
    /\ GroupStep("send")
    /\ gprocs[p].pc = "send"
    /\ bcast' = << >>
    /\ LET pr == gprocs[p]
           config == ConfigOf(HandlerSettings(pr, settings), pr.kind) IN
        gprocs' = [gprocs EXCEPT ![p].pc = AfterSend(ok), ![p].sends = @ + 1,
                                 ![p].sentText = pr.text,
                                 ![p].sentMentions = MentionsSent(pr, config),
                                 ![p].sendFailed = ~ok]
    /\ UNCHANGED <<nEvents, glog>>

\* await Watchlist.findOne({ chatId: groupId, isActive: true }) resolves or
\* rejects; for a watched group the handler broadcasts the update and returns
WatchUpdateStep(p, ok, sinkOk) ==
    /\ GroupStep("watchUpdate")
    /\ gprocs[p].pc = "watch"
    /\ LET pr == gprocs[p]
           watched == ok /\ FindActive(watchlist, GroupChat) IN
        /\ bcast' = IF watched
                     THEN <<Broadcast(WS_WATCHLIST_UPDATE,
                                      [chatId |-> GroupChat,
                                       event |-> IF pr.kind = "join" THEN "member_join"
                                                 ELSE "member_leave",
                                       members |-> pr.ids])>>
                     ELSE << >>
        /\ glog' = GLogOf(pr, IF ok /\ (sinkOk \/ ~watched) THEN "returned"
                               ELSE ListenerOutcome(pr.kind),
                          watched /\ ~sinkOk, watched, watched)
    /\ (~ok => sinkOk)
    /\ gprocs' = [gprocs EXCEPT ![p] = GIdle]
    /\ UNCHANGED nEvents

\* the auto-message model: group events next to message events, with the
\* registry calls that make a conversation watched
InitAuto ==
    /\ InitStore
    /\ InitOperational
    /\ settings \in SettingsDocs
    /\ gprocs = [p \in GSlots |-> GIdle]
    /\ glog = NoGLog

NextAuto ==
    \/ \E ids \in RecipientLists, sinkOk \in BOOLEAN : HandleGroupJoin(ids, sinkOk)
    \/ \E ids \in RecipientLists, sinkOk \in BOOLEAN : HandleGroupLeave(ids, sinkOk)
    \/ \E p \in GSlots, ok \in BOOLEAN : SettingsLookupStep(p, ok)
    \/ \E p \in GSlots : DelayStep(p)
    \/ \E p \in GSlots, ok \in BOOLEAN : ContactStep(p, ok)
    \/ \E p \in GSlots, ok \in BOOLEAN : GetChatByIdStep(p, ok)
    \/ \E p \in GSlots, ok \in BOOLEAN : SendMessageStep(p, ok)
    \/ \E p \in GSlots, ok \in BOOLEAN, sinkOk \in BOOLEAN : WatchUpdateStep(p, ok, sinkOk)
    \/ LoopFree /\ AddToWatchlist(GroupChat)

SpecAuto == InitAuto /\ [][NextAuto]_vars

\* the event loop model: a delayed auto-message next to the handling of a
\* message of the group, all awaited operations succeeding
NextLoop ==
    \/ \E ids \in RecipientLists : HandleGroupJoin(ids, TRUE)
    \/ \E ids \in RecipientLists : HandleGroupLeave(ids, TRUE)
    \/ \E p \in GSlots : SettingsLookupStep(p, TRUE)
    \/ \E p \in GSlots : DelayStep(p)
    \/ \E p \in GSlots : ContactStep(p, TRUE)
    \/ \E p \in GSlots : GetChatByIdStep(p, TRUE)
    \/ \E p \in GSlots : SendMessageStep(p, TRUE)
    \/ \E p \in GSlots : WatchUpdateStep(p, TRUE, TRUE)
    \/ LoopFree /\ AddToWatchlist(GroupChat)
    \/ \E b \in Bodies : LoopFree /\ DeliverMessage("m4", b)
    \/ \E p \in Slots : LoopFree /\ GetChatStep(p)
    \/ \E p \in Slots : LoopFree /\ FindWatchStep(p)
    \/ \E p \in Slots : LoopFree /\ SaveWatchStep(p)
    \/ \E p \in Slots : LoopFree /\ LogFindStep(p)
    \/ \E p \in Slots : LoopFree /\ LogCreateStep(p)

SpecLoop == InitAuto /\ [][NextLoop]_vars

(***************************************************************************)
(* Auto-message configuration calls (GroupService over GroupSettings)      *)
(***************************************************************************)
\* Object.values(AUTO_MESSAGE_TYPES)
AutoMessageTypes == {"welcome", "farewell", "rules", "announcement"}

\* the triggers the autoMessages object of the schema has
ConfiguredTriggers == {"welcome", "farewell", "rules"}

\* the type arguments considered
TypeArgs == AutoMessageTypes \cup {"bogus"}

\* the config arguments of updateAutoMessage considered
ConfigArgs == { [enabled |-> TRUE],
                [message |-> <<"Hi ", At, User, "!">>, delay |-> 0] }

\* GroupSettings.getOrCreate(groupId, groupName): the document found, or a
\* new one with the schema defaults
GetOrCreate(doc) == IF doc.exists THEN doc ELSE [NoSettings EXCEPT !.exists = TRUE]

\* { ...this.autoMessages[type], ...config }
MergeConfig(cfg, config) ==
    [k \in DOMAIN cfg |-> IF k \in DOMAIN config THEN config[k] ELSE cfg[k]]

\* the part of a configuration call that does not depend on the call; the
\* type is recorded as the id and the outcome as the body of the operation
SettingsCall(op, type, outcome) ==
    /\ nEvents < MaxEvents
    /\ nEvents' = nEvents + 1
    /\ lastOp' = OpRec(op, type, GroupChat, outcome, Null, "")
    /\ bcast' = << >>
    /\ UNCHANGED <<storeVars, procs, logRet, inbound, inboundCount, markReads, revokeObs,
                    watchSeen, watchBcasts, sessVars, regVars, gprocs, glog>>

\* GroupService.updateAutoMessage(groupId, type, config): getGroupSettings
\* (getOrCreate), then the document's updateAutoMessage, which throws
\* "Invalid auto-message type" for a type outside AUTO_MESSAGE_TYPES; a type
\* of the enumeration that the schema does not have is assigned outside the
\* schema and saved without effect
UpdateAutoMessage(type, config) ==
    LET doc == GetOrCreate(settings) IN
    IF type \notin AutoMessageTypes
    THEN /\ settings' = doc
         /\ SettingsCall("updateAutoMessage", type, "invalidType")
    ELSE /\ settings' = IF type \in ConfiguredTriggers
                          THEN [doc EXCEPT ![type] = MergeConfig(@, config)]
                          ELSE doc
         /\ SettingsCall("updateAutoMessage", type, "saved")

\* GroupService.toggleAutoMessage(groupId, type): as above; for a type of the
\* enumeration that the schema does not have, this.autoMessages[type] is
\* undefined and reading its enabled throws a TypeError
ToggleAutoMessage(type) ==
    LET doc == GetOrCreate(settings) IN
    IF type \notin AutoMessageTypes
    THEN /\ settings' = doc
         /\ SettingsCall("toggleAutoMessage", type, "invalidType")
    ELSE IF type \in ConfiguredTriggers
    THEN /\ settings' = [doc EXCEPT ![type].enabled = ~@]
         /\ SettingsCall("toggleAutoMessage", type, "saved")
    ELSE /\ settings' = doc
         /\ SettingsCall("toggleAutoMessage", type, "typeError")

NextSettings ==
    \/ \E type \in TypeArgs, config \in ConfigArgs : UpdateAutoMessage(type, config)
    \/ \E type \in TypeArgs : ToggleAutoMessage(type)

SpecSettings == InitAuto /\ [][NextSettings]_vars

(***************************************************************************)
(* Watch registry: addToWatchlist step by step, one step per await         *)
(* (the order field of an entry is outside the model)                      *)
(***************************************************************************)
AddFreeSlot == CHOOSE p \in Slots :
                   /\ addProcs[p].pc = "idle"
                   /\ \A q \in Slots : addProcs[q].pc = "idle" => p <= q

NoUniqueChatId(wl, c) == TRUE

\* the unique index on chatId: create() of a second document is rejected
CanInsertEntry(wl, c) == ~wl[c].exists

\* the part of every step of an add call that does not depend on the step
AddStep(op, c) ==
    /\ lastOp' = OpRec(op, Null, c, "", Null, "")
    /\ bcast' = << >>
    /\ UNCHANGED <<messages, procs, logRet, inbound, inboundCount, watchSeen, watchBcasts,
                    markReads, revokeObs, sessVars, autoVars>>

\* WatchlistService.addToWatchlist(chatId) is called: ensureReady passes and
\* the call awaits client.getChatById
AddCall(c) ==
    /\ nEvents < MaxEvents
    /\ IsClientReady
    /\ \E p \in Slots : addProcs[p].pc = "idle"
    /\ addProcs' = [addProcs EXCEPT ![AddFreeSlot] = [pc |-> "getChat", chat |-> c, doc |-> NoEntry]]
    /\ nEvents' = nEvents + 1
    /\ AddStep("addCall", c)
    /\ UNCHANGED <<watchlist, dupDocs, addRet>>

\* WatchlistService.addToWatchlist(chatId) is called while the client is not
\* ready: ensureReady throws CLIENT_NOT_READY as the first statement
AddRejected(c) ==
    /\ nEvents < MaxEvents
    /\ ~IsClientReady
    /\ nEvents' = nEvents + 1
    /\ AddStep("addNotReady", c)
    /\ UNCHANGED <<watchlist, regVars>>

\* client.getChatById resolves (the profile picture lookup has its own catch);
\* without a chat the call throws CHAT_NOT_FOUND
AddGetChatStep(p, ok) ==
    /\ addProcs[p].pc = "getChat"
    /\ IF ok
       THEN /\ addProcs' = [addProcs EXCEPT ![p].pc = "findExisting"]
            /\ AddStep("addGetChat", addProcs[p].chat)
            /\ UNCHANGED addRet
       ELSE /\ addProcs' = [addProcs EXCEPT ![p] = AddIdle]
            /\ addRet' = [addRet EXCEPT !.outcome = "chatNotFound", !.chat = addProcs[p].chat,
                                         !.entry = NoEntry]
            /\ AddStep("addChatNotFound", addProcs[p].chat)
    /\ UNCHANGED <<watchlist, dupDocs, nEvents>>

AddBranchCreates(entry) == "maxOrder"

\* if (existing) { if (!existing.isActive) ... save() }: where the call goes
\* when the entry it found is not an active one
AddBranch(entry) == IF entry.exists THEN "save" ELSE "maxOrder"

\* Watchlist.addToWatchlist: await this.findOne({ chatId }) resolves; an
\* active entry is returned as it is, an inactive one goes to save(), no
\* entry goes to the maxOrder lookup
AddFindExistingStep(p) ==
    LET c == addProcs[p].chat IN
    /\ addProcs[p].pc = "findExisting"
    /\ IF watchlist[c].exists /\ watchlist[c].isActive
       THEN /\ addProcs' = [addProcs EXCEPT ![p] = AddIdle]
            /\ addRet' = [addRet EXCEPT !.outcome = "existing", !.chat = c,
                                         !.entry = watchlist[c]]
            /\ AddStep("addExisting", c)
       ELSE /\ addProcs' = [addProcs EXCEPT ![p].pc = AddBranch(watchlist[c]),
                                            ![p].doc = watchlist[c]]
            /\ AddStep("addFind", c)
            /\ UNCHANGED addRet
    /\ UNCHANGED <<watchlist, dupDocs, nEvents>>

\* existing.isActive = true; existing.save(): the modified path is written
\* and the loaded document is returned
AddSaveStep(p) ==
    LET c == addProcs[p].chat IN
    /\ addProcs[p].pc = "save"
    /\ watchlist' = [watchlist EXCEPT ![c].isActive = TRUE]
    /\ addRet' = [addRet EXCEPT !.outcome = "reactivated", !.chat = c,
                                 !.entry = [addProcs[p].doc EXCEPT !.isActive = TRUE]]
    /\ addProcs' = [addProcs EXCEPT ![p] = AddIdle]
    /\ AddStep("addReactivated", c)
    /\ UNCHANGED <<dupDocs, nEvents>>

\* await this.findOne({ isActive: true }).sort({ order: -1 }) resolves
AddMaxOrderStep(p) ==
    /\ addProcs[p].pc = "maxOrder"
    /\ addProcs' = [addProcs EXCEPT ![p].pc = "create",
                                    ![p].doc = NewEntry(MaxOrder(watchlist) + 1)]
    /\ AddStep("addMaxOrder", addProcs[p].chat)
    /\ UNCHANGED <<watchlist, dupDocs, addRet, nEvents>>

\* this.create({ ...chatData, order }): the insert, rejected by the unique
\* index when an entry of that chatId was created in between
AddCreateStep(p) ==
    LET c == addProcs[p].chat IN
    /\ addProcs[p].pc = "create"
    /\ IF CanInsertEntry(watchlist, c)
       THEN /\ watchlist' = IF watchlist[c].exists THEN watchlist
                              ELSE [watchlist EXCEPT ![c] = addProcs[p].doc]
            /\ dupDocs' = IF watchlist[c].exists THEN [dupDocs EXCEPT ![c] = @ + 1]
                            ELSE dupDocs
            /\ addRet' = [addRet EXCEPT !.outcome = "created", !.chat = c,
                                         !.entry = addProcs[p].doc]
            /\ AddStep("addCreated", c)
       ELSE /\ addRet' = [addRet EXCEPT !.outcome = "duplicate", !.chat = c,
                                         !.entry = NoEntry, !.rejected = @ + 1]
            /\ AddStep("addDuplicate", c)
            /\ UNCHANGED <<watchlist, dupDocs>>
    /\ addProcs' = [addProcs EXCEPT ![p] = AddIdle]
    /\ UNCHANGED nEvents

NextRegistry ==
    \/ \E c \in Chats : AddCall(c)
    \/ \E p \in Slots, ok \in BOOLEAN : AddGetChatStep(p, ok)
    \/ \E p \in Slots : AddFindExistingStep(p)
    \/ \E p \in Slots : AddSaveStep(p)
    \/ \E p \in Slots : AddMaxOrderStep(p)
    \/ \E p \in Slots : AddCreateStep(p)
    \/ \E c \in Chats : RemoveFromWatchlist(c)
    \/ \E id \in {"m1", "m4"} : DeliverMessage(id, "hi")
    \/ \E p \in Slots : GetChatStep(p)
    \/ \E p \in Slots : FindWatchStep(p)
    \/ \E p \in Slots : SaveWatchStep(p)
    \/ \E p \in Slots : LogFindStep(p)
    \/ \E p \in Slots : LogCreateStep(p)

SpecRegistry == InitIngest /\ [][NextRegistry]_vars

(***************************************************************************)
(* addToWatchlist calls in every state of the session                      *)
(***************************************************************************)
\* ensureReady reads the in-memory client and status only, so the session
\* document's queued writes are left pending here
NextGate ==
    \/ InitializeClient
    \/ \E k \in ClientIds : InitializeResolves(k)
    \/ \E k \in ClientIds : InitializeRejects(k)
    \/ \E k \in ClientIds, qr \in QRs : OnQr(k, qr)
    \/ \E k \in ClientIds : OnAuthenticated(k)
    \/ \E k \in ClientIds : OnReady(k)
    \/ \E k \in ClientIds : OnDisconnected(k)
    \/ \E k \in ClientIds : OnAuthFailure(k)
    \/ \E ok \in BOOLEAN : DestroyClient(ok)
    \/ \E ok \in BOOLEAN : LogoutClient(ok)
    \/ AddToWatchlist(DirectChat)
    \/ AddRejected(DirectChat)

SpecGate == Init /\ [][NextGate]_vars

(***************************************************************************)
(* Watch registry calls of the dashboard next to the message handlers      *)
(***************************************************************************)
\* the registry at the start: empty, or with the direct conversation added
\* earlier (the first entry created, with the schema defaults)
InitWatch ==
    /\ watchlist \in {[c \in Chats |-> NoEntry],
                      [c \in Chats |-> IF c = DirectChat THEN NewEntry(1) ELSE NoEntry]}
    /\ InitDispatcher
    /\ InitOperational
    /\ InitGroups

NextWatch ==
    \/ \E c \in Chats : AddToWatchlist(c)
    \/ \E c \in Chats : RemoveFromWatchlist(c)
    \/ \E c \in Chats : MarkAsRead(c)
    \/ \E c \in Chats : TogglePin(c)
    \/ \E c \in Chats : ToggleNotifications(c)
    \/ \E ids \in OrderedIds : ReorderWatchlist(ids)
    \/ \E id \in {"m1", "m2", "m4"} : DeliverMessage(id, "hi")
    \/ \E p \in Slots : GetChatStep(p)
    \/ \E p \in Slots : FindWatchStep(p)
    \/ \E p \in Slots : SaveWatchStep(p)
    \/ \E p \in Slots : LogFindStep(p)
    \/ \E p \in Slots : LogCreateStep(p)

SpecWatch == InitWatch /\ [][NextWatch]_vars

(***************************************************************************)
(* Ack, edit and revoke events next to the handler that logs the message   *)
(***************************************************************************)
RaceMsg == "m1"

NextRace ==
    \/ \E b \in Bodies : DeliverMessage(RaceMsg, b)
    \/ \E p \in Slots : FindWatchStep(p)
    \/ \E p \in Slots : SaveWatchStep(p)
    \/ \E p \in Slots : LogFindStep(p)
    \/ \E p \in Slots : LogCreateStep(p)
    \/ \E a \in AckLevels : HandleMessageAck(RaceMsg, a)
    \/ \E b \in Bodies : HandleMessageRevoke(WaMessage(RaceMsg, b))
    \/ \E b, old \in Bodies : HandleMessageEdit(RaceMsg, b, old)

SpecRace == InitWatch /\ [][NextRace]_vars

(***************************************************************************)
(* A delayed welcome next to settings changes and a disconnect             *)
(***************************************************************************)
\* the config arguments of the configuration calls made during a delay
CancelArgs == ConfigArgs \cup {[enabled |-> FALSE]}

NextCancel ==
    \/ \E ids \in RecipientLists : HandleGroupJoin(ids, TRUE)
    \/ \E p \in GSlots : SettingsLookupStep(p, TRUE)
    \/ \E p \in GSlots : DelayStep(p)
    \/ \E p \in GSlots, ok \in BOOLEAN : ContactStep(p, ok)
    \/ \E p \in GSlots, ok \in BOOLEAN : GetChatByIdStep(p, ok)
    \/ \E p \in GSlots, ok \in BOOLEAN : SendMessageStep(p, ok)
    \/ \E p \in GSlots : WatchUpdateStep(p, TRUE, TRUE)
    \/ \E config \in CancelArgs : UpdateAutoMessage("welcome", config)
    \/ ToggleAutoMessage("welcome")
    \/ \E k \in ClientIds : OnDisconnected(k)

SpecCancel == InitAuto /\ [][NextCancel]_vars

\* every awaited operation of a handler settles and every timer fires
HandlerFairness ==
    \A p \in GSlots :
        /\ WF_vars(SettingsLookupStep(p, TRUE))
        /\ WF_vars(DelayStep(p))
        /\ WF_vars(\E ok \in BOOLEAN : ContactStep(p, ok))
        /\ WF_vars(\E ok \in BOOLEAN : GetChatByIdStep(p, ok))
        /\ WF_vars(\E ok \in BOOLEAN : SendMessageStep(p, ok))
        /\ WF_vars(WatchUpdateStep(p, TRUE, TRUE))

SpecCancelLive == SpecCancel /\ HandlerFairness

(***************************************************************************)
(* Handler sets attached by the "ready" listener and the events they get   *)
(***************************************************************************)
\* client.on("ready") fires again on a client that is ready already: the
\* listeners of config/whatsapp.js and app.js run as for the first one
OnReadyAgain(k) ==
    /\ SessionStep("readyAgain")
    /\ initRet' = initRet
    /\ phase[k] = "ready"
    /\ clientStatus' = READY
    /\ EmitStatus(READY, <<Broadcast(WS_CLIENT_READY, [info |-> client])>>, <<ClientInfoWrite>>)
    /\ UNCHANGED <<client, currentQR, phase, initCall, sessionDoc, handlerSets>>

IdleSlots == {p \in Slots : procs[p].pc = "idle"}

\* the first n idle slots
FirstIdle(n) == {p \in IdleSlots : Cardinality({q \in IdleSlots : q < p}) < n}

\* client k emits "message": every listener that initializeEventHandlers
\* registered on it for the event runs handleMessage(message)
EmitMessage(k, id, body) ==
    /\ nEvents < MaxEvents
    /\ phase[k] = "ready"
    /\ ~MsgFromMe(id)
    /\ handlerSets[k] <= Cardinality(IdleSlots)
    /\ LET message == WaMessage(id, body) IN
        /\ procs' = [p \in Slots |->
                IF p \in FirstIdle(handlerSets[k])
                THEN [pc   |-> IF IsGroupId(message.from) THEN "getChat" ELSE "findWatch",
                      kind |-> "message", msg |-> message, doc |-> NoEntry]
                ELSE procs[p]]
        /\ lastOp' = OpRec("message", id, message.from, body, Null, "")
    /\ nEvents' = nEvents + 1
    /\ bcast' = << >>
    /\ UNCHANGED <<storeVars, logRet, inbound, inboundCount, watchSeen, watchBcasts, markReads, revokeObs, sessVars, autoVars, regVars>>

NextAttach ==
    \/ \E k \in ClientIds : OnReadyAgain(k)
    \/ \E i \in 1..MaxSessionSteps : ApplyWrite(i)
    \/ \E k \in ClientIds, id \in {"m1", "m2"} : EmitMessage(k, id, "hi")
    \/ \E p \in Slots : FindWatchStep(p)
    \/ \E p \in Slots : SaveWatchStep(p)
    \/ \E p \in Slots : LogFindStep(p)
    \/ \E p \in Slots : LogCreateStep(p)

SpecAttach == InitWatch /\ [][NextAttach]_vars

(***************************************************************************)
(* Properties                                                              *)
(***************************************************************************)
ReactionsOf(row, sender) == {j \in DOMAIN row.reactions : row.reactions[j].senderId = sender}

PageIds(page) == {page[i].messageId : i \in DOMAIN page}

\* C1: a logMessage call that finds a record of its messageId leaves the
\* store exactly as it was, with one record of that id, and returns that
\* stored record, whatever data the second call carries (first write wins).
C1_RelogReturnsFirstUnchanged ==
    [][lastOp'.op = "logFound" =>
          /\ Cardinality(RowsOf(messages, lastOp'.id)) = 1
          /\ messages' = messages
          /\ logRet' = messages[FindOne(messages, lastOp'.id)]]_vars

\* C1 witness: a second logMessage call with another body has returned the
\* record of the first.
C1_Witness ==
    /\ lastOp.op = "logFound"
    /\ logRet.messageId = lastOp.id
    /\ logRet.body # lastOp.body

\* C2: the message store never holds two rows with the same messageId, also
\* when two logMessage calls passed their existence check before either
\* created the record.
C2_NoDuplicateRows == \A id \in MsgIds : Cardinality(RowsOf(messages, id)) <= 1

\* C2 witness: the create of a handler that had found no record was rejected
\* because another handler had created the record in between.
C2_Witness == lastOp.op = "logDuplicate" /\ RowsOf(messages, lastOp.id) # {}

\* C3: once all handlers have finished, with no mark-read or remove on the
\* conversation, the unreadCount of an active entry equals the number N of
\* handled non-self inbound messages with distinct messageIds.
C3_UnreadCountsEveryMessage ==
    \A c \in Chats :
        ( /\ AllIdle
          /\ FindActive(watchlist, c)
          /\ markReads[c] = 0
          /\ inboundCount[c] = Cardinality(inbound[c]) )
        => watchlist[c].unreadCount = inboundCount[c]

\* C4: every stored message holds at most one reaction entry per sender.
C4_OneReactionPerSender ==
    \A i \in DOMAIN messages : \A sn \in Senders :
        Cardinality(ReactionsOf(messages[i], sn)) <= 1

C6_DeletedHasTombstone ==
    \A i \in DOMAIN messages : messages[i].isDeleted => messages[i].body = Tombstone

\* C7: the broadcast of a revoke event carries the messageId and nothing
\* else, so two revoke events that differ only in the body of the revoked
\* message are broadcast identically.
C7_RevokeBroadcastIgnoresBody ==
    /\ \A o \in revokeObs : o.data = [messageId |-> o.id]
    /\ \A o1, o2 \in revokeObs : o1.id = o2.id => o1.data = o2.data

\* C7 witness: the same message was revoked with two different bodies.
C7_Witness == \E o1, o2 \in revokeObs : o1.id = o2.id /\ o1.body # o2.body

\* C8: the pending pairing payload is non-null only in status QR_READY.
C8_QrOnlyWhenQrReady == currentQR # Null => clientStatus = QR_READY

\* the status-changed broadcasts among the broadcasts of a step
StatusBroadcasts(bs) == SelectSeq(bs, LAMBDA b : b.event = WS_CLIENT_STATUS)

\* the status upserts among the Session writes a step has issued
StatusWrites(ws) == SelectSeq(ws, LAMBDA w : w = StatusWrite(w.status))

\* C9: every step that changes the session status emits exactly one
\* status-changed broadcast and issues exactly one Session upsert, both
\* carrying the new status.
C9_EveryChangeEmitsOnce ==
    [][clientStatus' # clientStatus =>
          /\ StatusBroadcasts(bcast') = <<Broadcast(WS_CLIENT_STATUS, [status |-> clientStatus'])>>
          /\ Len(pendingWrites') > Len(pendingWrites)
          /\ StatusWrites(SubSeq(pendingWrites', Len(pendingWrites) + 1, Len(pendingWrites')))
                = <<StatusWrite(clientStatus')>>]_vars

\* C10: an initialize call made in a status other than DISCONNECTED or FAILED
\* leaves the status and the client instance unchanged, one made in
\* DISCONNECTED or FAILED moves to INITIALIZING with a new client.
C10_InitializeOnlyWhenDown ==
    [][(sessOp' = "initialize" /\ sessSteps' = sessSteps + 1) =>
          IF clientStatus \in {DISCONNECTED, FAILED}
          THEN clientStatus' = INITIALIZING /\ client' # client
          ELSE clientStatus' = clientStatus /\ client' = client]_vars

\* C11: a failed client initialization ends in status FAILED with one
\* status-changed broadcast, gives nothing to the caller of initialize (the
\* call had returned before), and the status enters INITIALIZING only in
\* the step of an initialize call.
C11_InitFailureCaught ==
    [][/\ (sessOp' = "initFailed" /\ sessSteps' = sessSteps + 1) =>
            /\ clientStatus' = FAILED
            /\ StatusBroadcasts(bcast')
                 = <<Broadcast(WS_CLIENT_STATUS, [status |-> FAILED])>>
            /\ initRet' = initRet
            /\ initRet \in {"null", "client"}
       /\ (clientStatus' = INITIALIZING /\ clientStatus # INITIALIZING) =>
            (sessOp' = "initialize" /\ sessSteps' = sessSteps + 1)]_vars

\* C11 witness: an initialization has failed and no initialize call followed.
C11_Witness == sessOp = "initFailed" /\ clientStatus = FAILED /\ initRet = "null"

\* the generic new-message broadcasts among the broadcasts of a step
NewMessageBroadcasts(bs) == SelectSeq(bs, LAMBDA b : b.event = WS_MESSAGE_NEW)

\* a step in which the handleMessage invocation of slot p returns or throws
FinishesMessage(p) ==
    /\ procs[p].kind = "message"
    /\ procs[p].pc # "idle"
    /\ procs'[p].pc = "idle"

\* C13: the step that ends the handling of an inbound message event emits
\* exactly one generic new-message broadcast, carrying that message, and no
\* other step emits one: every inbound message event gives exactly one.
C13_OneNewMessageBroadcast ==
    [][/\ \A p \in Slots : FinishesMessage(p) =>
              NewMessageBroadcasts(bcast')
                = <<Broadcast(WS_MESSAGE_NEW, FormatMessage(procs[p].msg))>>
       /\ (\A p \in Slots : ~FinishesMessage(p)) => NewMessageBroadcasts(bcast') = << >>]_vars

WelcomeOff == ~(settings.exists /\ settings.welcome.enabled)

\* C15: with the welcome trigger disabled or no configuration at all, a join
\* event is broadcast as usual, and its handler resolves no contact and
\* issues no send, at any point up to its end.
C15_DisabledWelcomeSendsNothing ==
    [][WelcomeOff =>
          /\ (lastOp'.op = "group_join" /\ nEvents' = nEvents + 1) =>
                (Len(bcast') = 1 /\ bcast'[1].event = WS_GROUP_JOIN)
          /\ \A p \in GSlots : gprocs'[p].kind = "join" =>
                /\ gprocs'[p].pc \in {"settings", "watch"}
                /\ gprocs'[p].contacts = 0
                /\ gprocs'[p].sends = 0
          /\ glog'.kind = "join" => (glog'.contacts = 0 /\ glog'.sends = 0)]_vars

\* C15 witness: a join handler has returned for a group whose configuration
\* exists with the welcome trigger disabled.
C15_Witness ==
    /\ settings.exists
    /\ ~settings.welcome.enabled
    /\ glog.kind = "join"
    /\ glog.outcome = "returned"
    /\ glog.sends = 0

\* C16: with the welcome enabled, the template "Hi @{user}!", mention-on-join
\* and the one joining member x1 resolved to the handle h1, the one send
\* issued carries the text "Hi @h1!" and mentions exactly x1.
C16_WelcomeTextSubstituted ==
    ( /\ settings.exists
      /\ settings.welcome.enabled
      /\ settings.welcome.mentionUser
      /\ settings.welcome.message = <<"Hi ", At, User, "!">>
      /\ glog.kind = "join"
      /\ glog.ids = <<"x1@c.us">>
      /\ glog.sends = 1
      /\ glog.sentMentions = <<"x1@c.us">> )
    => glog.sentText = <<"Hi ", At, "h1", "!">>

\* C17: a join / leave handler issues at most one send; after a failed send
\* or conversation lookup it goes on to the watchlist lookup without another
\* attempt, nothing escapes the dispatcher, and a handler that returns for a
\* watched group has emitted the watchlist-update broadcast.
C17_SendAtMostOnce ==
    [][/\ \A p \in GSlots :
            /\ gprocs'[p].sends <= 1
            /\ gprocs'[p].sendFailed => gprocs'[p].pc = "watch"
            /\ ( /\ gprocs[p].pc = "watch"
                  /\ gprocs[p].sendFailed
                  /\ gprocs'[p].pc = "idle"
                  /\ FindActive(watchlist, GroupChat)
                  /\ glog'.outcome = "returned" )
                => /\ Len(bcast') = 1
                   /\ bcast'[1].event = WS_WATCHLIST_UPDATE
                   /\ bcast'[1].data.chatId = GroupChat
       /\ glog'.sends <= 1
       /\ glog'.outcome # "escaped"]_vars

\* C17 witness: the one send of a handler failed and the handler returned
\* after the watchlist-update broadcast of the watched group.
C17_Witness ==
    /\ glog.sends = 1
    /\ glog.sendFailed
    /\ glog.watched
    /\ glog.updateBcast
    /\ glog.outcome = "returned"
    /\ lastOp.op = "watchUpdate"
    /\ Len(bcast) = 1

\* C18: while a join / leave handler waits out its delay, the delivery of a
\* further event stays enabled, and so does the next step of every message
\* handler in flight: the pending send blocks nothing.
C18_DelayDoesNotBlock ==
    (\E g \in GSlots : gprocs[g].pc = "delay") =>
        /\ (nEvents < MaxEvents /\ ~AllBusy) => ENABLED (LoopFree /\ DeliverMessage("m4", "hi"))
        /\ \A p \in Slots :
              /\ procs[p].pc = "getChat" => ENABLED (LoopFree /\ GetChatStep(p))
              /\ procs[p].pc = "findWatch" => ENABLED (LoopFree /\ FindWatchStep(p))
              /\ procs[p].pc = "saveWatch" => ENABLED (LoopFree /\ SaveWatchStep(p))
              /\ procs[p].pc = "logFind" => ENABLED (LoopFree /\ LogFindStep(p))
              /\ procs[p].pc = "logCreate" => ENABLED (LoopFree /\ LogCreateStep(p))

\* C18 witness: a message that arrived while the handler was in its delay (no
\* message handler was in flight when the delay began) has been stored and
\* broadcast, and the delayed send has not been issued yet.
C18_Witness ==
    \E g \in GSlots :
        /\ gprocs[g].pc = "delay"
        /\ gprocs[g].sends = 0
        /\ gprocs[g].quiet
        /\ Len(messages) > gprocs[g].rowsAt
        /\ lastOp.op = "logCreated"
        /\ Len(bcast) = 2
        /\ AllIdle

\* C19: a handler whose broadcast call threw goes on with its remaining
\* steps and returns as if the call had returned normally.
C19_SinkFailureContained == glog.sinkThrew => glog.outcome = "returned"

\* C20: whatever add calls ran and however their steps interleaved, the
\* collection never holds a second document of a chatId, every add call that
\* returned an entry leaves the chatId with its entry, and an add that finds
\* the entry active returns it and writes nothing to the registry.
C20_AddIdempotent ==
    [][/\ \A c \in Chats : dupDocs'[c] = 0
       /\ addRet'.outcome \in {"created", "reactivated", "existing", "duplicate"}
             => watchlist'[addRet'.chat].exists
       /\ \A p \in Slots :
             ( /\ addProcs[p].pc = "findExisting"
               /\ addProcs'[p].pc # "findExisting"
               /\ FindActive(watchlist, addProcs[p].chat) )
             => /\ watchlist' = watchlist
                /\ addProcs'[p].pc = "idle"
                /\ addRet'.outcome = "existing"
                /\ addRet'.entry = watchlist[addProcs[p].chat]]_vars

\* C20 witness: of two interleaved add calls one created the entry and the
\* other's insert was rejected, and a later add found the entry active and
\* returned it.
C20_Witness ==
    /\ addRet.outcome = "existing"
    /\ addRet.rejected > 0
    /\ addRet.entry = watchlist[addRet.chat]
    /\ lastOp.op = "addExisting"

\* C21: a remove call that finds the entry sets its active flag to false and
\* nothing else: the entry stays in the store with every other field as it
\* was, the entries of other conversations and all message records are
\* untouched, and the entry returned is the stored one.
C21_RemoveOnlyDeactivates ==
    [][lastOp'.op = "remove" =>
          LET c == lastOp'.chat IN
          /\ watchlist'[c].exists
          /\ ~watchlist'[c].isActive
          /\ watchlist'[c] = [watchlist[c] EXCEPT !.isActive = FALSE]
          /\ \A d \in Chats \ {c} : watchlist'[d] = watchlist[d]
          /\ messages' = messages
          /\ addRet'.entry = watchlist'[c]]_vars

\* C21 witness: a watched conversation with a stored message and an unread
\* count was removed.
C21_Witness ==
    /\ lastOp.op = "remove"
    /\ ~watchlist[lastOp.chat].isActive
    /\ watchlist[lastOp.chat].unreadCount > 0
    /\ \E i \in DOMAIN messages : messages[i].chatId = lastOp.chat

\* C22: an add call that finds the conversation's entry soft-deleted goes to
\* the save of that entry, never to a create; its save sets the active flag
\* of the stored entry and nothing else, no second document of the
\* conversation exists, the call returns an active entry, and every result of
\* list() contains the conversation again.
C22_ReaddReactivates ==
    [][/\ \A p \in Slots :
             ( /\ addProcs[p].pc = "findExisting"
               /\ addProcs'[p].pc # "findExisting"
               /\ watchlist[addProcs[p].chat].exists
               /\ ~watchlist[addProcs[p].chat].isActive )
             => addProcs'[p].pc = "save"
       /\ lastOp'.op = "addReactivated" =>
             LET c == lastOp'.chat IN
             /\ watchlist[c].exists
             /\ watchlist'[c] = [watchlist[c] EXCEPT !.isActive = TRUE]
             /\ watchlist'[c].isActive
             /\ dupDocs'[c] = 0
             /\ addRet'.entry.isActive
             /\ GetActiveWatchlist(watchlist') # {}
             /\ \A q \in GetActiveWatchlist(watchlist') : \E i \in DOMAIN q : q[i] = c]_vars

\* C22 witness: after add, remove and add of one conversation the second add
\* has reactivated the entry.
C22_Witness ==
    /\ lastOp.op = "addReactivated"
    /\ nEvents = 3
    /\ addRet.outcome = "reactivated"
    /\ watchlist[lastOp.chat].isActive
    /\ \A d \in Chats \ {lastOp.chat} : ~watchlist[d].exists

\* C23: a remove, markRead, togglePin or toggleNotifications call for a
\* conversation without an active entry (never added, or soft-deleted) ends
\* with the not-found error and leaves the registry as it was.
C23_NoActiveEntryNotFound ==
    [][( /\ nEvents' = nEvents + 1
         /\ lastOp'.op \in {"remove", "removeNotFound", "markRead", "markReadNotFound",
                            "togglePin", "togglePinNotFound",
                            "toggleNotifications", "toggleNotificationsNotFound"}
         /\ ~FindActive(watchlist, lastOp'.chat) )
       => /\ addRet'.outcome = "notFound"
          /\ watchlist' = watchlist]_vars

\* C24: a reorder call given exactly the active entries writes to each entry
\* its 0-based position in the given sequence and nothing else, so the query
\* sorted by order returns the given sequence and only it, while the results
\* list() can return are the same before and after.
C24_ReorderAssignsPositions ==
    [][lastOp'.op = "reorder" =>
          \A ids \in OrderedIds :
              ( /\ {ids[i] : i \in DOMAIN ids} = Active(watchlist)
                /\ watchlist' = Reorder(watchlist, ids) )
              => /\ \A i \in DOMAIN ids :
                       watchlist'[ids[i]] = [watchlist[ids[i]] EXCEPT !.order = i - 1]
                 /\ GetOrderedWatchlist(watchlist') = {ids}
                 /\ GetActiveWatchlist(watchlist') = GetActiveWatchlist(watchlist)]_vars

\* C24 witness: two active entries were reordered; the one created second
\* now comes first in the query sorted by order.
C24_Witness ==
    /\ lastOp.op = "reorder"
    /\ nEvents = 3
    /\ Active(watchlist) = Chats
    /\ watchlist[lastOp.chat].order = 0
    /\ \E c \in Chats : watchlist[c].order = 1
    /\ Cardinality(GetOrderedWatchlist(watchlist)) = 1

\* the non-deleted records of conversation c
LiveRows(c) == {i \in DOMAIN messages : messages[i].chatId = c /\ ~messages[i].isDeleted}

\* C25: every page getChatMessages(c, {limit: k}) can return without a cursor
\* holds min(k, n) distinct records of the n non-deleted records of c, none
\* of another conversation and none deleted, in ascending timestamp order,
\* and no record left out is more recent than a record of the page.
C25_PageIsMostRecent ==
    \A c \in Chats, k \in 1..MaxOps :
        \A pg \in GetChatMessages(messages, c, k, 0, 0, FALSE) :
            /\ Len(pg) = Min(k, Cardinality(LiveRows(c)))
            /\ \A i \in DOMAIN pg :
                  /\ pg[i].chatId = c
                  /\ ~pg[i].isDeleted
                  /\ \E r \in LiveRows(c) : messages[r] = pg[i]
            /\ \A i, j \in DOMAIN pg : i < j =>
                  /\ pg[i].timestamp <= pg[j].timestamp
                  /\ pg[i].messageId # pg[j].messageId
            /\ \A r \in LiveRows(c) :
                  (\A i \in DOMAIN pg : pg[i].messageId # messages[r].messageId)
                  => \A i \in DOMAIN pg : messages[r].timestamp <= pg[i].timestamp

\* C25 witness: a conversation holds two records of different timestamps next
\* to a record of another conversation, and its page of limit 1 is the later
\* record alone.
C25_Witness ==
    /\ Cardinality(LiveRows(DirectChat)) = 2
    /\ LiveRows(GroupChat) # {}
    /\ \E a, b \in LiveRows(DirectChat) :
          /\ messages[a].timestamp < messages[b].timestamp
          /\ GetChatMessages(messages, DirectChat, 1, 0, 0, FALSE) = {<<messages[b]>>}

OthersReactions(row, sender) == SelectSeq(row.reactions, LAMBDA r : r.senderId # sender)

\* C27: when a reaction event with an empty emoji from sender s on a stored
\* message was handled, the record holds no reaction entry of s, the entries
\* of the other senders are the same as before in the same order, and no
\* other record was changed.
C27_EmptyEmojiRemovesSenderOnly ==
    [][(lastOp'.op = "reaction" /\ lastOp'.emoji = "") =>
          /\ Len(messages') = Len(messages)
          /\ \A i \in DOMAIN messages :
                IF messages[i].messageId = lastOp'.id
                THEN /\ ReactionsOf(messages'[i], lastOp'.sender) = {}
                     /\ messages'[i].reactions = OthersReactions(messages[i], lastOp'.sender)
                     /\ messages'[i] = [messages[i] EXCEPT !.reactions = messages'[i].reactions]
                ELSE messages'[i] = messages[i]]_vars

\* C27 witness: an empty-emoji event of one sender was handled on a stored
\* message that carries the reaction of another sender.
C27_Witness ==
    /\ lastOp.op = "reaction"
    /\ lastOp.emoji = ""
    /\ \E i \in DOMAIN messages :
          /\ messages[i].messageId = lastOp.id
          /\ messages[i].reactions # << >>
          /\ ReactionsOf(messages[i], lastOp.sender) = {}

\* C28: the unreadCount of an entry changes only in two ways: it rises by
\* exactly one in the save of a handler of a non-self inbound message (a
\* handler saves only when its lookup found the entry active), and it is set
\* to 0 by a mark-read call; no other step changes it.
C28_UnreadChangedByTwoOperations ==
    [][\A c \in Chats :
          watchlist'[c].unreadCount # watchlist[c].unreadCount =>
              \/ /\ lastOp'.op = "watchSaved"
                 /\ lastOp'.chat = c
                 /\ ~MsgFromMe(lastOp'.id)
                 /\ watchlist'[c].unreadCount = watchlist[c].unreadCount + 1
              \/ /\ lastOp'.op = "markRead"
                 /\ lastOp'.chat = c
                 /\ watchlist'[c].unreadCount = 0]_vars

\* C29: an updateAutoMessage or toggleAutoMessage call with a type that is
\* not one of the three configured triggers ends with the invalid-type error
\* and leaves the stored configuration as it was, a missing document
\* included.
C29_UnknownTriggerRejected ==
    [][( /\ nEvents' = nEvents + 1
         /\ lastOp'.op \in {"updateAutoMessage", "toggleAutoMessage"}
         /\ lastOp'.id \notin ConfiguredTriggers )
       => /\ lastOp'.body = "invalidType"
          /\ settings' = settings]_vars

\* C30: an add call made while the session status is not READY ends with
\* the not-ready error: no call to the session is made or pending for it, and
\* the registry and the message store are as they were.
C30_AddNeedsReady ==
    [][( /\ nEvents' = nEvents + 1
         /\ lastOp'.op \in {"add", "addReactivate", "addNotReady"}
         /\ clientStatus # READY )
       => /\ lastOp'.op = "addNotReady"
          /\ addProcs' = addProcs
          /\ watchlist' = watchlist
          /\ dupDocs' = dupDocs
          /\ messages' = messages]_vars

\* C30 witness: an add call was rejected while a client exists whose status
\* is not READY, after an earlier add call had created the entry.
C30_Witness ==
    /\ lastOp.op = "addNotReady"
    /\ client # 0
    /\ clientStatus # READY
    /\ watchlist[DirectChat].exists

\* C31: the stored ack level of a message never decreases: an ack event for a
\* stored message leaves the larger of the stored level and the event's level
\* (error < pending < sent < received < read < played)
C31_AckMonotonicMax ==
    [][( /\ lastOp'.op = "ack"
         /\ nEvents' = nEvents + 1
         /\ FindOne(messages, lastOp'.id) # NoRow )
       => messages'[FindOne(messages, lastOp'.id)].ack
            = Max(messages[FindOne(messages, lastOp'.id)].ack, bcast'[1].data.ack)]_vars

\* the text contains the handle of member id
TextHasHandle(text, id) == \E k \in DOMAIN text : text[k] = Handle(id)

\* C32: for a join event with several joining members and mention-on-join
\* enabled, the text sent contains the handle of every resolved member and the
\* mentions attached are exactly the resolved members.
C32_EveryResolvedMemberInText ==
    [][\A p \in GSlots :
        ( /\ gprocs[p].pc = "send"
          /\ gprocs'[p].sends = gprocs[p].sends + 1
          /\ gprocs[p].kind = "join"
          /\ Len(gprocs[p].ids) > 1
          /\ ConfigOf(gprocs[p].doc, "join").mentionUser )
        => /\ gprocs'[p].sentMentions = gprocs[p].mentions
           /\ \A j \in DOMAIN gprocs[p].mentions :
                 TextHasHandle(gprocs'[p].sentText, gprocs[p].mentions[j])]_vars

\* members of ids that are not among the resolved ones
Unresolved(ids, resolved) ==
    {ids[i] : i \in DOMAIN ids} \ {resolved[j] : j \in DOMAIN resolved}

\* C33: when resolving one joining member fails, only that member is skipped:
\* the handler goes on with the next member or with the send, the text and the
\* resolved members are left as they were, and the one send issued after all
\* members were tried carries the failed member neither in its text nor in
\* its mentions.
C33_FailedMemberSkipped ==
    [][\A p \in GSlots :
        /\ ( /\ gprocs[p].pc = "contact"
             /\ gprocs'[p].contacts = gprocs[p].contacts + 1
             /\ gprocs'[p].mentions = gprocs[p].mentions )
           => /\ gprocs'[p].pc = IF gprocs[p].idx = Len(gprocs[p].ids)
                                  THEN "getChatById" ELSE "contact"
              /\ gprocs'[p].idx = gprocs[p].idx + 1
              /\ gprocs'[p].text \in
                    {gprocs[p].text,
                     WithRules(gprocs[p].text, ConfigOf(gprocs[p].doc, "join"), gprocs[p].doc)}
        /\ ( /\ gprocs[p].pc = "send"
             /\ gprocs[p].kind = "join"
             /\ gprocs'[p].sends = gprocs[p].sends + 1 )
           => /\ gprocs'[p].sends = 1
              /\ gprocs[p].contacts = Len(gprocs[p].ids)
              /\ \A id \in Unresolved(gprocs[p].ids, gprocs[p].mentions) :
                    /\ ~TextHasHandle(gprocs'[p].sentText, id)
                    /\ \A j \in DOMAIN gprocs'[p].sentMentions :
                          gprocs'[p].sentMentions[j] # id]_vars

\* C33 witness: a welcome was sent for a join of x2 and x1 of which x2 could
\* not be resolved: the send mentions x1 only.
C33_Witness ==
    /\ glog.kind = "join"
    /\ glog.ids = <<"x2@c.us", "x1@c.us">>
    /\ glog.contacts = 2
    /\ glog.sends = 1
    /\ ~glog.sendFailed
    /\ glog.sentMentions = <<"x1@c.us">>
    /\ TextHasHandle(glog.sentText, "x1@c.us")

\* the welcome text built from a template for the resolved members, in order
RECURSIVE MentionAll(_, _, _, _)
MentionAll(text, config, resolved, n) ==
    IF n = 0 THEN text
    ELSE MentionText(MentionAll(text, config, resolved, n - 1), config, resolved[n])

\* the text a join handler sends when it works from the document doc
WelcomeText(doc, resolved) ==
    WithRules(MentionAll(doc.welcome.message, doc.welcome, resolved, Len(resolved)),
              doc.welcome, doc)

\* the handler that finished last had found its trigger enabled and made its
\* send attempt: the send was issued, or the conversation lookup before it failed
SendAttempted ==
    /\ glog.enabled
    /\ \/ glog.sends = 1
       \/ glog.sends = 0 /\ glog.sendFailed

C35_WaitsConfiguredDelay ==
    \A p \in GSlots :
        gprocs[p].pc = "delay"
            => gprocs[p].waitMs = ConfigOf(gprocs[p].doc, gprocs[p].kind).delay

\* C36: handling the redelivery of an inbound message whose messageId is
\* already stored does not change unreadCount: the save of a handler whose
\* message has a record leaves the count of its conversation as it was.
C36_RedeliveryNotCountedTwice ==
    [][\A p \in Slots :
        ( /\ procs[p].pc = "saveWatch"
          /\ procs'[p].pc = "logFind"
          /\ ~procs[p].msg.fromMe
          /\ FindOne(messages, procs[p].msg.id) # NoRow )
        => watchlist'[ProcChat(procs[p])].unreadCount
             = watchlist[ProcChat(procs[p])].unreadCount]_vars

\* C37: whatever lifecycle events came before, a message event emitted by the
\* session starts exactly one handler invocation, and the unread count of a
\* conversation never exceeds the number of message events emitted.
C37_OneHandlerPerEvent ==
    /\ [][(lastOp'.op = "message" /\ nEvents' = nEvents + 1)
            => Cardinality({p \in Slots : procs'[p] # procs[p]}) = 1]_vars
    /\ [](\A c \in Chats : watchlist[c].unreadCount <= nEvents)

\* the step creates the record of RaceMsg
CreatesRecord == FindOne(messages, RaceMsg) = NoRow /\ FindOne(messages', RaceMsg) # NoRow

\* C38: an ack, edit or revoke event handled before the handler that logs the
\* message has created the record is not lost: the record created after a
\* revoke was handled is marked deleted and carries the tombstone body, and
\* the record created right after an edit or ack was handled is marked edited
\* or carries the reported ack level.
C38_EarlyUpdateNotLost ==
    [][CreatesRecord =>
          LET row == messages'[FindOne(messages', RaceMsg)] IN
          /\ (\E o \in revokeObs : o.id = RaceMsg) =>
                (row.isDeleted /\ row.body = Tombstone)
          /\ (lastOp.op = "edit" /\ lastOp.id = RaceMsg) => row.isEdited
          /\ (lastOp.op = "ack" /\ lastOp.id = RaceMsg) => row.ack \in AckLevels]_vars

\* C39: once every Session write issued has been applied, the status of the
\* persisted Session document is the in-memory status, in whatever order the
\* writes were applied.
C39_PersistedStatusConverges ==
    (pendingWrites = << >> /\ sessionDoc.exists) => sessionDoc.status = clientStatus

\* the messageIds of a page, in page order
PageSeq(page) == [i \in DOMAIN page |-> page[i].messageId]

\* the sequences of messageIds a client can collect paging backwards from the
\* cursor `before`, each next call given the timestamp of the oldest record of
\* the page before it, until a page comes back empty (at most n calls)
RECURSIVE WalkBack(_, _, _, _, _)
WalkBack(rows, c, k, before, n) ==
    IF n = 0 THEN {<< >>}
    ELSE UNION { IF pg = << >> THEN {<< >>}
                 ELSE {w \o PageSeq(pg) : w \in WalkBack(rows, c, k, pg[1].timestamp, n - 1)}
               : pg \in GetChatMessages(rows, c, k, before, 0, FALSE) }

\* the same paging forwards from the cursor `after`, each next call given
\* the timestamp of the newest record of the page before it
RECURSIVE WalkForward(_, _, _, _, _)
WalkForward(rows, c, k, after, n) ==
    IF n = 0 THEN {<< >>}
    ELSE UNION { IF pg = << >> THEN {<< >>}
                 ELSE {PageSeq(pg) \o w :
                          w \in WalkForward(rows, c, k, pg[Len(pg)].timestamp, n - 1)}
               : pg \in GetChatMessages(rows, c, k, 0, after, FALSE) }

\* a sequence of messageIds holds exactly the records R, each once
CoversOnce(w, R) ==
    /\ Len(w) = Cardinality(R)
    /\ {w[i] : i \in DOMAIN w} = {messages[r].messageId : r \in R}

\* C40: paging through a conversation backwards from the newest page, or
\* forwards from the timestamp of a record, with any limit, collects every
\* non-deleted record on the far side of the start exactly once, records of
\* equal timestamps included.
C40_PagingCoversEveryRecord ==
    \A c \in Chats, k \in 1..MaxOps :
        /\ \A w \in WalkBack(messages, c, k, 0, Len(messages) + 1) :
              CoversOnce(w, LiveRows(c))
        /\ \A r \in LiveRows(c) :
              \A w \in WalkForward(messages, c, k, messages[r].timestamp, Len(messages) + 1) :
                  CoversOnce(w, {q \in LiveRows(c) : messages[q].timestamp > messages[r].timestamp})

====
